---- MODULE Spec2Model ----
(***************************************************************************)
(* A model of sdcli: the Stable Diffusion client (pkg/stability: the       *)
(* request value types, AspectRatio.String and ParseAspectRatio,           *)
(* Generate3Request.validate, Generate3Request.toFormData,                 *)
(* Client.Generate3 and Client.GenerateUltra) and the gen-3 command that   *)
(* calls Generate3 (Gen3Command.Run).                                      *)
(*                                                                         *)
(* Specifications                                                          *)
(*   Spec            one call of Client.Generate3                          *)
(*   SpecFaulty      the same call over a form buffer that may fail a      *)
(*                   Write                                                 *)
(*   SpecClient      one call of a public method of the Client, Generate3  *)
(*                   or GenerateUltra                                      *)
(*   SpecDirect      one call of toFormData on any request and any sink    *)
(*   SpecParse       AspectRatio.String and ParseAspectRatio on their own  *)
(*   SpecRun         one run of the gen-3 command, with the call of        *)
(*                   Generate3 it makes, the post-generation command it    *)
(*                   waits for, and another run writing to the same        *)
(*                   output directory; os.WriteFile is an open, a loop of  *)
(*                   writes and a close, one system call to a step         *)
(*   SpecConcurrent  two calls on one Client, interleaved: Generate3 and   *)
(*                   either Generate3 or GenerateUltra                     *)
(*                                                                         *)
(* A call hands its request to the transport in one step and gets the      *)
(* response in another; the body of a response is read a Read at a time,   *)
(* by io.Copy and by io.ReadAll alike, and closed as the call returns.     *)
(*                                                                         *)
(* Representation of Go values                                             *)
(*   string / Prompt   a record [text, pad]: the bytes of text followed by *)
(*                     pad filler bytes, so that a 10,001 byte prompt is a  *)
(*                     small value.  Its len() is Len(text) + pad.          *)
(*   []byte            a sequence of byte values                            *)
(*   Strength          float32, a record [class, n]: the finite values are  *)
(*                     the dyadic rationals n/8, which float32 holds        *)
(*                     exactly; the others are NaN and +Inf                 *)
(*   error             a record [ctx, is, status, body]: the message        *)
(*                     fragments outermost first, the sentinels errors.Is   *)
(*                     finds in the chain, and the arguments formatted into *)
(*                     the message                                          *)
(*   io.Reader         a record [isNil, data, fails]: the nil interface     *)
(*                     value, or a reader that yields the bytes of data and *)
(*                     then EOF, or (fails) an error                        *)
(*   the bytes of a    a sequence of cells [tag, val, byte], the units a     *)
(*   tagged image      write may stop between: the Exif tags set on the     *)
(*                     image, then the bytes the service sent               *)
(*   the files         a function from the paths that exist to their bytes  *)
(*   a descriptor      a record [state, off, err, created, linked]: whether *)
(*                     it is open, its offset, the error met so far,        *)
(*                     whether the open created the file, and whether the   *)
(*                     file is still at its path                            *)
(*   a response body   a record [pos, ends]: the bytes read so far and how  *)
(*                     the body ends, with EOF or with an error of Read     *)
(***************************************************************************)
EXTENDS Integers, Sequences, FiniteSets, TLC

----------------------------------------------------------------------------
(* Bounds of the model *)

\* Longest response body the HTTP service sends.
MaxBodyLen == 2

\* Longest string handed to ParseAspectRatio, the renderings of
\* AspectRatio.String and the examples of the specification apart.
MaxRatioLen == 4

\* Latest Write a failing sink fails: toFormData makes at most 15 Writes on
\* its sink, Generate3 one more.
MaxFailAt == 16

----------------------------------------------------------------------------
(* Go strings *)

Str(t) == [text |-> t, pad |-> 0]

Padded(t, n) == [text |-> t, pad |-> n]

EmptyStr == Str("")

\* len(s)
StrLen(s) == Len(s.text) + s.pad

----------------------------------------------------------------------------
(* Go errors *)

\* The nil error.
Nil == [ctx |-> <<>>, is |-> {}, status |-> 0, body |-> <<>>]

\* errors.New(msg)
ErrorsNew(msg) == [ctx |-> <<msg>>, is |-> {}, status |-> 0, body |-> <<>>]

\* A sentinel: a package-level errors.New value, found by errors.Is.
Sentinel(name, msg) == [ctx |-> <<msg>>, is |-> {name}, status |-> 0, body |-> <<>>]

\* fmt.Errorf(msg + ": %w", e): the chain of e is kept.
Wrap(msg, e) == [e EXCEPT !.ctx = <<msg>> \o e.ctx]

\* fmt.Errorf(msg + ": %v", e): only the text of e is kept.
Flatten(msg, e) == [e EXCEPT !.ctx = <<msg>> \o e.ctx, !.is = {}]

\* errors.Is(e, sentinel)
ErrorsIs(e, name) == name \in e.is

ErrPromptTooLong ==
    Sentinel("ErrPromptTooLong", "prompt is too long, maximum length is 10,000 characters")

ErrUnknownModel == Sentinel("ErrUnknownModel", "unrecognized model name")

ErrStrengthOutOfRange ==
    Sentinel("ErrStrengthOutOfRange", "strength must be between 0.0 and 1.0")

----------------------------------------------------------------------------
(* Prompt *)

MaxPromptLen == 10000

\* Prompt.Validate with the bound off by one: 10,000 bytes are refused.
Prompt_Validate_OffByOne(p) ==
    IF StrLen(p) >= MaxPromptLen
    THEN Wrap("prompt of length %d is invalid", ErrPromptTooLong)
    ELSE Nil

\* Prompt.Validate
Prompt_Validate(p) ==
    IF StrLen(p) > MaxPromptLen
    THEN Wrap("prompt of length %d is invalid", ErrPromptTooLong)
    ELSE Nil

----------------------------------------------------------------------------
(* Strength *)

\* A finite Strength of numerator n stands for the float32 n / StrengthDenom.
StrengthDenom == 8

F32(n) == [class |-> "finite", n |-> n]

NaN == [class |-> "NaN", n |-> 0]

PosInf == [class |-> "+Inf", n |-> 0]

\* a < b on float32: false when either is NaN.
F32_Lt(a, b) ==
    /\ a.class # "NaN"
    /\ b.class # "NaN"
    /\ a.class = "finite"
    /\ (b.class = "finite" => a.n < b.n)

\* a != b on float32: true when either is NaN.
F32_Ne(a, b) == a.class = "NaN" \/ b.class = "NaN" \/ a # b

\* Strength.Validate
Strength_Validate(s) ==
    IF F32_Lt(s, F32(0)) \/ F32_Lt(F32(1 * StrengthDenom), s)
    THEN Wrap("strength %f is invalid", ErrStrengthOutOfRange)
    ELSE Nil

----------------------------------------------------------------------------
(* SD3Model *)

SD3Medium == "sd3-medium"

SD3Large == "sd3-large"

SD3LargeTurbo == "sd3-large-turbo"

AllSD3Models == <<SD3Medium, SD3Large, SD3LargeTurbo>>

\* SD3Model.exists taking the empty name for a known model.
SD3Model_exists_EmptyKnown(s) ==
    s = "" \/ \E i \in 1..Len(AllSD3Models) : s = AllSD3Models[i]

\* SD3Model.exists
SD3Model_exists(s) == \E i \in 1..Len(AllSD3Models) : s = AllSD3Models[i]

\* SD3Model.validate
SD3Model_validate(s) ==
    IF ~SD3Model_exists(s) THEN Wrap("%s", ErrUnknownModel) ELSE Nil

----------------------------------------------------------------------------
(* AspectRatio *)

AR(w, h) == [Width |-> w, Height |-> h]

validAspectRatios ==
    <<AR(1, 1), AR(16, 9), AR(21, 9), AR(2, 3), AR(3, 2),
      AR(4, 5), AR(5, 4), AR(9, 16), AR(9, 21)>>

DigitStr == <<"0", "1", "2", "3", "4", "5", "6", "7", "8", "9">>

\* The %d verb of fmt.
RECURSIVE Itoa(_)
Itoa(n) ==
    IF n < 0 THEN "-" \o Itoa(-n)
    ELSE IF n < 10 THEN DigitStr[n + 1]
    ELSE Itoa(n \div 10) \o DigitStr[(n % 10) + 1]

\* AspectRatio.String
AspectRatio_String(a) == Itoa(a.Width) \o ":" \o Itoa(a.Height)

\* s[i:i+1] of a string s, counting from 1.
CharAt(t, i) == SubSeq(t, i, i)

\* strings.Split(t, ":"), reading t from its i-th character on; cur is the
\* part in progress.
RECURSIVE SplitFrom(_, _, _)
SplitFrom(t, i, cur) ==
    IF i > Len(t) THEN <<cur>>
    ELSE IF CharAt(t, i) = ":" THEN <<cur>> \o SplitFrom(t, i + 1, "")
    ELSE SplitFrom(t, i + 1, cur \o CharAt(t, i))

Split(t) == SplitFrom(t, 1, "")

\* The *NumError of strconv.Atoi around strconv.ErrSyntax.
ErrSyntax ==
    Wrap("strconv.Atoi: parsing %q", Sentinel("strconv.ErrSyntax", "invalid syntax"))

\* ch - '0' for a digit, a value above 9 for every other byte.
DigitOf(c) ==
    IF \E d \in 0..9 : DigitStr[d + 1] = c
    THEN CHOOSE d \in 0..9 : DigitStr[d + 1] = c
    ELSE 10

\* The loop of strconv.Atoi over the digits, from the i-th on.
RECURSIVE AtoiLoop(_, _, _)
AtoiLoop(t, i, n) ==
    IF i > Len(t) THEN [ok |-> TRUE, n |-> n]
    ELSE IF DigitOf(CharAt(t, i)) > 9 THEN [ok |-> FALSE, n |-> 0]
    ELSE AtoiLoop(t, i + 1, n * 10 + DigitOf(CharAt(t, i)))

\* strconv.Atoi with the empty string read as 0.
Atoi_EmptyZero(t) ==
    LET signed == Len(t) > 0 /\ CharAt(t, 1) \in {"-", "+"}
        digits == IF signed THEN SubSeq(t, 2, Len(t)) ELSE t
        r      == AtoiLoop(digits, 1, 0)
    IN  IF ~r.ok THEN [val |-> 0, err |-> ErrSyntax]
        ELSE [val |-> IF signed /\ CharAt(t, 1) = "-" THEN -r.n ELSE r.n,
              err |-> Nil]

\* strconv.Atoi, for the strings short enough not to overflow an int.
Atoi(t) ==
    LET signed == Len(t) > 0 /\ CharAt(t, 1) \in {"-", "+"}
        digits == IF signed THEN SubSeq(t, 2, Len(t)) ELSE t
        r      == AtoiLoop(digits, 1, 0)
    IN  IF Len(digits) < 1 \/ ~r.ok THEN [val |-> 0, err |-> ErrSyntax]
        ELSE [val |-> IF signed /\ CharAt(t, 1) = "-" THEN -r.n ELSE r.n,
              err |-> Nil]

\* A (*AspectRatio, error) pair: the pointer is nil or points to value.
ParseResult(isNil, value, e) == [isNil |-> isNil, value |-> value, err |-> e]

\* ParseAspectRatio taking the first part for the height.
ParseAspectRatio_Swapped(ratio) ==
    LET parts == Split(ratio)
    IN  IF Len(parts) # 2
        THEN ParseResult(TRUE, AR(0, 0),
                         ErrorsNew("invalid number of semi-colons in aspect ratio"))
        ELSE IF Atoi(parts[1]).err # Nil
        THEN ParseResult(TRUE, AR(0, 0),
                         Wrap("width ratio is not an integer", Atoi(parts[1]).err))
        ELSE IF Atoi(parts[2]).err # Nil
        THEN ParseResult(TRUE, AR(0, 0),
                         Wrap("height ratio is not an integer", Atoi(parts[2]).err))
        ELSE ParseResult(FALSE, AR(Atoi(parts[2]).val, Atoi(parts[1]).val), Nil)

\* ParseAspectRatio
ParseAspectRatio(ratio) ==
    LET parts == Split(ratio)
    IN  IF Len(parts) # 2
        THEN ParseResult(TRUE, AR(0, 0),
                         ErrorsNew("invalid number of semi-colons in aspect ratio"))
        ELSE IF Atoi(parts[1]).err # Nil
        THEN ParseResult(TRUE, AR(0, 0),
                         Wrap("width ratio is not an integer", Atoi(parts[1]).err))
        ELSE IF Atoi(parts[2]).err # Nil
        THEN ParseResult(TRUE, AR(0, 0),
                         Wrap("height ratio is not an integer", Atoi(parts[2]).err))
        ELSE ParseResult(FALSE, AR(Atoi(parts[1]).val, Atoi(parts[2]).val), Nil)

\* AspectRatio.validate
AspectRatio_validate(a) ==
    IF a.Width <= 0 THEN ErrorsNew("aspect ratio width is less than 0: %d")
    ELSE IF a.Height <= 0 THEN ErrorsNew("aspect ratio height is less than 0: %d")
    ELSE IF ~(\E i \in 1..Len(validAspectRatios) :
                 /\ validAspectRatios[i].Width = a.Width
                 /\ validAspectRatios[i].Height = a.Height)
    THEN ErrorsNew("aspect ratio is not supported: %s")
    ELSE Nil

----------------------------------------------------------------------------
(* Generate3Request *)

\* Generate3Request.validate with the model checked before the prompts.
Generate3Request_validate_ModelFirst(g) ==
    IF SD3Model_validate(g.Model) # Nil
    THEN SD3Model_validate(g.Model)
    ELSE IF g.Prompt = EmptyStr THEN ErrorsNew("prompt cannot be empty")
    ELSE IF Prompt_Validate(g.Prompt) # Nil
    THEN Wrap("prompt is invalid", Prompt_Validate(g.Prompt))
    ELSE IF Prompt_Validate(g.NegativePrompt) # Nil
    THEN Wrap("negative prompt is invalid", Prompt_Validate(g.NegativePrompt))
    ELSE IF g.AspectRatio.Width = 0 \/ g.AspectRatio.Height = 0
    THEN ErrorsNew("invalid aspect ratio: %q")
    ELSE Nil

\* Generate3Request.validate
Generate3Request_validate(g) ==
    IF g.Prompt = EmptyStr THEN ErrorsNew("prompt cannot be empty")
    ELSE IF Prompt_Validate(g.Prompt) # Nil
    THEN Wrap("prompt is invalid", Prompt_Validate(g.Prompt))
    ELSE IF Prompt_Validate(g.NegativePrompt) # Nil
    THEN Wrap("negative prompt is invalid", Prompt_Validate(g.NegativePrompt))
    ELSE IF g.AspectRatio.Width = 0 \/ g.AspectRatio.Height = 0
    THEN ErrorsNew("invalid aspect ratio: %q")
    ELSE IF SD3Model_validate(g.Model) # Nil
    THEN SD3Model_validate(g.Model)
    ELSE Nil

----------------------------------------------------------------------------
(* mime/multipart.Writer over an io.Writer *)

\* A writer over a sink: out is what the sink has accepted, n the number of
\* Write calls made on the sink, failAt the call the sink fails (0: none; a
\* bytes.Buffer never fails), boundary the writer's boundary token, we the
\* error a Write of the last part met (Nil: none).
NewWriter(failAt, boundary) ==
    [out |-> <<>>, n |-> 0, failAt |-> failAt, boundary |-> boundary, we |-> Nil]

\* Writer.FormDataContentType
FormDataContentType(w) == "multipart/form-data; boundary=" \o w.boundary

Header(name) == [kind |-> "header", name |-> name, val |-> EmptyStr]

Data(val) == [kind |-> "data", name |-> "", val |-> val]

Trailer == [kind |-> "close", name |-> "", val |-> EmptyStr]

\* The outcome of an operation on a writer.
Res(w, e, panic) == [w |-> w, err |-> e, panic |-> panic]

\* The error a failing Write of the sink returns.
ErrSinkWrite == Sentinel("sink write error", "write failed")

\* The error a failing Read of an image source returns.
ErrImageRead == Sentinel("image read error", "read failed")

\* One Write call on the sink.
SinkWrite(w, entry) ==
    IF w.n + 1 = w.failAt
    THEN Res([w EXCEPT !.n = @ + 1], ErrSinkWrite, FALSE)
    ELSE Res([w EXCEPT !.n = @ + 1, !.out = Append(@, entry)], Nil, FALSE)

\* part.Write: one Write on the sink; the part remembers its failure.
PartWrite(w, entry) ==
    LET r == SinkWrite(w, entry)
    IN  IF r.err # Nil THEN Res([r.w EXCEPT !.we = r.err], r.err, FALSE) ELSE r

\* Writer.CreateFormField: closes the last part, returning the error it
\* remembers; else the part header goes out in one Write.
CreateFormField(w, name) ==
    IF w.we # Nil THEN Res(w, w.we, FALSE) ELSE SinkWrite(w, Header(name))

\* Writer.WriteField: CreateFormField, then the value in one Write.
WriteField(w, name, val) ==
    LET p == CreateFormField(w, name)
    IN  IF p.err # Nil THEN p ELSE PartWrite(p.w, Data(val))

\* The nil io.Reader.
NilReader == [isNil |-> TRUE, data |-> EmptyStr, fails |-> FALSE]

\* A reader that yields the bytes d, then EOF.
Reader(d) == [isNil |-> FALSE, data |-> d, fails |-> FALSE]

\* A reader that yields the bytes d, then an error.
FailingReader(d) == [isNil |-> FALSE, data |-> d, fails |-> TRUE]

\* io.Copy(part, src): calling Read on a nil reader faults; the bytes read
\* go out in a Write (none when nothing was read); a failed Write or, after
\* it, the error of Read ends the copy.
Copy(w, src) ==
    IF src.isNil THEN Res(w, Nil, TRUE)
    ELSE LET r == IF StrLen(src.data) = 0 THEN Res(w, Nil, FALSE)
                  ELSE PartWrite(w, Data(src.data))
         IN  IF r.err # Nil THEN r
             ELSE IF src.fails THEN Res(r.w, ErrImageRead, FALSE)
             ELSE r

\* Writer.Close: closes the last part, returning the error it remembers;
\* else writes the closing boundary, every time it is called.
Writer_Close(w) ==
    IF w.we # Nil THEN Res(w, w.we, FALSE) ELSE SinkWrite(w, Trailer)

----------------------------------------------------------------------------
(* strconv.FormatFloat(float64(s), 'f', 2, 32) *)

TwoDigits(k) == DigitStr[(k \div 10) + 1] \o DigitStr[(k % 10) + 1]

\* |n| / StrengthDenom in hundredths, rounded half to even.
Hundredths(m) ==
    LET q == (m * 100) \div StrengthDenom
        r == (m * 100) % StrengthDenom
    IN  IF 2 * r > StrengthDenom THEN q + 1
        ELSE IF 2 * r = StrengthDenom THEN q + (q % 2)
        ELSE q

\* The 'f' format with two digits, of the finite value n / StrengthDenom.
FmtF(n) ==
    LET m == IF n < 0 THEN -n ELSE n
        h == Hundredths(m)
    IN  (IF n < 0 THEN "-" ELSE "") \o Itoa(h \div 100) \o "." \o TwoDigits(h % 100)

\* NaN and the infinities are written by name, whatever the format.
FormatFloat(s) ==
    CASE s.class = "NaN"    -> "NaN"
      [] s.class = "+Inf"   -> "+Inf"
      [] s.class = "finite" -> FmtF(s.n)

----------------------------------------------------------------------------
(* Generate3Request.toFormData *)

FieldOp(name, val, msg) == [op |-> "field", name |-> name, val |-> val, msg |-> msg]

\* toFormData writing output_format before model.
FormOps_FormatFirst(g) ==
       <<FieldOp("aspect_ratio", Str(AspectRatio_String(g.AspectRatio)),
                 "failed to write aspect_ratio field in form data"),
         FieldOp("prompt", g.Prompt, "failed to write prompt field in form data")>>
    \o (IF g.OutputFormat # ""
        THEN <<FieldOp("output_format", Str(g.OutputFormat),
                       "failed to write output_format field in form data")>>
        ELSE <<>>)
    \o (IF g.Model # ""
        THEN <<FieldOp("model", Str(g.Model), "failed to write model field in form data")>>
        ELSE <<>>)
    \o (IF g.NegativePrompt # EmptyStr
        THEN <<FieldOp("negative_prompt", g.NegativePrompt,
                       "failed to write negative_prompt field in form data")>>
        ELSE <<>>)
    \o (IF F32_Ne(g.Strength, F32(0))
        THEN <<FieldOp("strength", Str(FormatFloat(g.Strength)),
                       "failed to write strength field in this form data")>>
        ELSE <<>>)
    \o <<[op |-> "create", name |-> "image", val |-> EmptyStr,
          msg |-> "failed to create form field for image"],
         [op |-> "copy", name |-> "image", val |-> EmptyStr,
          msg |-> "failed to copy image to form fields for request"],
         [op |-> "close", name |-> "", val |-> EmptyStr,
          msg |-> "failed to close form data writer"]>>

\* The writes toFormData makes, in order.
FormOps(g) ==
       <<FieldOp("aspect_ratio", Str(AspectRatio_String(g.AspectRatio)),
                 "failed to write aspect_ratio field in form data"),
         FieldOp("prompt", g.Prompt, "failed to write prompt field in form data")>>
    \o (IF g.Model # ""
        THEN <<FieldOp("model", Str(g.Model), "failed to write model field in form data")>>
        ELSE <<>>)
    \o (IF g.OutputFormat # ""
        THEN <<FieldOp("output_format", Str(g.OutputFormat),
                       "failed to write output_format field in form data")>>
        ELSE <<>>)
    \o (IF g.NegativePrompt # EmptyStr
        THEN <<FieldOp("negative_prompt", g.NegativePrompt,
                       "failed to write negative_prompt field in form data")>>
        ELSE <<>>)
    \o (IF F32_Ne(g.Strength, F32(0))
        THEN <<FieldOp("strength", Str(FormatFloat(g.Strength)),
                       "failed to write strength field in this form data")>>
        ELSE <<>>)
    \o <<[op |-> "create", name |-> "image", val |-> EmptyStr,
          msg |-> "failed to create form field for image"],
         [op |-> "copy", name |-> "image", val |-> EmptyStr,
          msg |-> "failed to copy image to form fields for request"],
         [op |-> "close", name |-> "", val |-> EmptyStr,
          msg |-> "failed to close form data writer"]>>

ApplyOp(w, o, g) ==
    CASE o.op = "field"  -> WriteField(w, o.name, o.val)
      [] o.op = "create" -> CreateFormField(w, o.name)
      [] o.op = "copy"   -> Copy(w, g.Image)
      [] o.op = "close"  -> Writer_Close(w)

\* Runs the writes from the i-th on; the first failure is returned wrapped,
\* a fault stops the run.
RECURSIVE RunOps(_, _, _, _)
RunOps(w, ops, i, g) ==
    IF i > Len(ops) THEN Res(w, Nil, FALSE)
    ELSE LET r == ApplyOp(w, ops[i], g)
         IN  IF r.panic THEN r
             ELSE IF r.err # Nil THEN Res(r.w, Wrap(ops[i].msg, r.err), FALSE)
             ELSE RunOps(r.w, ops, i + 1, g)

Generate3Request_toFormData(g, w) == RunOps(w, FormOps(g), 1, g)

----------------------------------------------------------------------------
(* GenerateUltraRequest *)

\* GenerateUltraRequest.validate: the prompt and the negative prompt by
\* their length, the aspect ratio by AspectRatio.validate.
GenerateUltraRequest_validate(g) ==
    IF Prompt_Validate(g.Prompt) # Nil THEN Prompt_Validate(g.Prompt)
    ELSE IF Prompt_Validate(g.NegativePrompt) # Nil
    THEN Prompt_Validate(g.NegativePrompt)
    ELSE AspectRatio_validate(g.AspectRatio)

\* GenerateUltraRequest.toFormData: its writes in order; the writer is not
\* closed.
GenerateUltraRequest_toFormData(g, w) ==
    LET ops ==
               <<FieldOp("prompt", g.Prompt, "failed to write prompt field")>>
            \o (IF StrLen(g.NegativePrompt) # 0
                THEN <<FieldOp("negative_prompt", g.NegativePrompt,
                               "failed to write negative prompt field")>>
                ELSE <<>>)
            \o <<FieldOp("aspect_ratio", Str(AspectRatio_String(g.AspectRatio)),
                         "failed to write aspect ratio field"),
                 FieldOp("output_format", Str(g.OutputFormat),
                         "failed to write output format field")>>
    IN  RunOps(w, ops, 1, g)

----------------------------------------------------------------------------
(* Inputs *)

Prompts ==
    {EmptyStr, Str("a bear riding a unicycle"),
     Padded("a", MaxPromptLen - 1), Padded("a", MaxPromptLen)}

NegativePrompts == {EmptyStr, Str("blurry"), Padded("b", MaxPromptLen)}

Models == {SD3Medium, SD3Large, SD3LargeTurbo, "", "sd3"}

AspectRatios ==
    {validAspectRatios[i] : i \in 1..Len(validAspectRatios)}
        \cup {AR(3, 5), AR(0, 9), AR(16, 0), AR(-1, 1), AR(1, -1)}

Strengths == {F32(-4), F32(0), F32(1), F32(4), F32(12), NaN, PosInf}

OutputFormats == {"png", ""}

Images == {NilReader, Reader(Str("IMG")), FailingReader(Str("IM"))}

Requests ==
    [AspectRatio : AspectRatios, Prompt : Prompts, Model : Models,
     OutputFormat : OutputFormats, NegativePrompt : NegativePrompts,
     Strength : Strengths, Image : Images]

\* The requests GenerateUltra is called with.
UltraRequests ==
    [Prompt : {EmptyStr, Str("a bear riding a unicycle"), Padded("a", MaxPromptLen)},
     NegativePrompt : {EmptyStr, Str("blurry")},
     AspectRatio : {AR(1, 1), AR(3, 5), AR(0, 1)},
     OutputFormat : {"png", ""}]

\* A text-to-image request: no negative prompt, no strength, no image.
ScenarioA ==
    [AspectRatio |-> AR(1, 1), Prompt |-> Str("a bear riding a unicycle"),
     Model |-> "sd3-large", OutputFormat |-> "png", NegativePrompt |-> EmptyStr,
     Strength |-> F32(0), Image |-> NilReader]

Bytes == {65, 66}

RECURSIVE SeqsUpTo(_, _)
SeqsUpTo(S, n) ==
    IF n = 0 THEN {<<>>}
    ELSE LET shorter == SeqsUpTo(S, n - 1)
         IN  shorter \cup {Append(q, b) : q \in shorter, b \in S}

\* The response bodies the service may send.
Bodies == SeqsUpTo(Bytes, MaxBodyLen)

\* The status codes the service may answer with.
Statuses == {200, 403, 500}

\* The errors httpClient.Do returns without a response: a *url.Error around
\* the error of the context, or around the error of the connection.
TransportFaults ==
    {Wrap("Post %q", Sentinel("context.Canceled", "context canceled")),
     Wrap("Post %q", Sentinel("context.DeadlineExceeded", "context deadline exceeded")),
     Wrap("Post %q", Sentinel("syscall.ECONNREFUSED", "connect: connection refused"))}

\* The boundary tokens multipart.NewWriter may draw.
Boundaries == {"3f2a", "9c1d"}

----------------------------------------------------------------------------
(* Client *)

\* A ClientOption that sets the base URL.
BaseURLOption(u) == [field |-> "baseURL", value |-> u]

\* The option lists NewClient is called with.
ClientOptionLists ==
    {<<>>, <<BaseURLOption("http://127.0.0.1:8080")>>,
     <<BaseURLOption("http://127.0.0.1\n:8080")>>,
     <<BaseURLOption("http://[::1")>>,
     <<BaseURLOption("http://a b")>>,
     <<BaseURLOption("http://h/%zz")>>,
     <<BaseURLOption(":")>>}

RECURSIVE ApplyOptions(_, _, _)
ApplyOptions(c, options, i) ==
    IF i > Len(options) THEN c
    ELSE ApplyOptions([c EXCEPT ![options[i].field] = options[i].value], options, i + 1)

\* NewClient(apiKey, options...): the defaults, then the options in order.
NewClient(apiKey, options) ==
    ApplyOptions([apiKey |-> apiKey, baseURL |-> "https://api.stability.ai"],
                 options, 1)

\* The byte of each character a string of the model can hold: four control
\* characters, and the printable characters of ASCII in the order of their
\* bytes, those from 0x20 to 0x5f and those from 0x61 to 0x7e (a string of
\* the model cannot hold 0x60, the grave accent).
ByteOf ==
    LET low == " !\"#$%&'()*+,-./0123456789:;<=>?@ABCDEFGHIJKLMNOPQRSTUVWXYZ[\\]^_"
        high == "abcdefghijklmnopqrstuvwxyz{|}~"
    IN  [c \in {"\t", "\n", "\f", "\r"}
                \cup {CharAt(low, i) : i \in 1..Len(low)}
                \cup {CharAt(high, i) : i \in 1..Len(high)} |->
            CASE c = "\t" -> 9
              [] c = "\n" -> 10
              [] c = "\f" -> 12
              [] c = "\r" -> 13
              [] \E i \in 1..Len(low) : CharAt(low, i) = c ->
                    31 + (CHOOSE i \in 1..Len(low) : CharAt(low, i) = c)
              [] OTHER ->
                    96 + (CHOOSE i \in 1..Len(high) : CharAt(high, i) = c)]

\* The bytes of the characters of t.
BytesOf(t) == {ByteOf[CharAt(t, i)] : i \in 1..Len(t)}

\* strings.IndexByte and strings.LastIndexByte, counted from 1 (0: absent).
IndexByte(t, c) ==
    IF \E i \in 1..Len(t) : CharAt(t, i) = c
    THEN CHOOSE i \in 1..Len(t) :
            CharAt(t, i) = c /\ \A j \in 1..(i - 1) : CharAt(t, j) # c
    ELSE 0

LastIndexByte(t, c) ==
    IF \E i \in 1..Len(t) : CharAt(t, i) = c
    THEN CHOOSE i \in 1..Len(t) :
            CharAt(t, i) = c /\ \A j \in (i + 1)..Len(t) : CharAt(t, j) # c
    ELSE 0

HasPrefix(t, pre) == Len(t) >= Len(pre) /\ SubSeq(t, 1, Len(pre)) = pre

\* strings.Cut at a one-byte separator: what stands before it, or all of t.
CutBefore(t, c) ==
    LET i == IndexByte(t, c) IN IF i = 0 THEN t ELSE SubSeq(t, 1, i - 1)

\* strings.Cut at a one-byte separator: what stands after it, or nothing.
CutAfter(t, c) ==
    LET i == IndexByte(t, c) IN IF i = 0 THEN "" ELSE SubSeq(t, i + 1, Len(t))

IsLetterByte(b) == (97 <= b /\ b <= 122) \/ (65 <= b /\ b <= 90)

IsDigitByte(b) == 48 <= b /\ b <= 57

\* net/url shouldEscape(c, encodeHost): the bytes a host may not hold as
\* they are.
shouldEscapeHost(b) ==
    ~ \/ IsLetterByte(b)
      \/ IsDigitByte(b)
      \/ b \in BytesOf("!$&'()*+,;=:[]<>\"")
      \/ b \in BytesOf("-_.~")

\* net/url stringContainsCTLByte: a byte below 0x20, or 0x7f.
stringContainsCTLByte(t) ==
    \E i \in 1..Len(t) :
        LET b == ByteOf[CharAt(t, i)] IN b < 32 \/ b = 127

\* net/url getScheme: the scheme and what follows it, or the error.
getScheme(rawURL) ==
    LET none == [scheme |-> "", rest |-> rawURL, err |-> Nil]
        schemeByte(i) ==
            LET b == ByteOf[CharAt(rawURL, i)]
            IN  IsLetterByte(b) \/ IsDigitByte(b) \/ b \in BytesOf("+-.")
    IN  IF rawURL = "" THEN none
        ELSE IF CharAt(rawURL, 1) = ":"
        THEN [scheme |-> "", rest |-> "",
              err |-> ErrorsNew("missing protocol scheme")]
        ELSE IF ~IsLetterByte(ByteOf[CharAt(rawURL, 1)]) THEN none
        ELSE IF \A i \in 1..Len(rawURL) : schemeByte(i) THEN none
        ELSE LET j == CHOOSE i \in 1..Len(rawURL) :
                        ~schemeByte(i) /\ \A k \in 1..(i - 1) : schemeByte(k)
             IN  IF CharAt(rawURL, j) = ":"
                 THEN [scheme |-> SubSeq(rawURL, 1, j - 1),
                       rest |-> SubSeq(rawURL, j + 1, Len(rawURL)), err |-> Nil]
                 ELSE none

\* net/url unescape, its error: the first loop over t from the byte at i on,
\* in the mode given ("host", "zone", or another).  An escape is refused
\* when it is cut short or not hexadecimal, in a host when it is below %80
\* and not %25, in a zone when it stands for a byte a host may not hold
\* (%25 and %20 apart); a byte that is not an escape is refused in a host
\* or a zone when shouldEscape says so.  unhex gives -1 for the bytes ishex
\* refuses.
RECURSIVE unescape(_, _, _)
unescape(t, i, mode) ==
    IF i > Len(t) THEN Nil
    ELSE IF CharAt(t, i) = "%"
    THEN IF i + 2 > Len(t)
         THEN ErrorsNew("invalid URL escape %q")
         ELSE LET unhex(b) ==
                      IF IsDigitByte(b) THEN b - 48
                      ELSE IF 97 <= b /\ b <= 102 THEN b - 97 + 10
                      ELSE IF 65 <= b /\ b <= 70 THEN b - 65 + 10
                      ELSE -1
                  escapeError(h1, h2, pct25) ==
                      \/ h1 < 0
                      \/ h2 < 0
                      \/ mode = "host" /\ h1 < 8 /\ ~pct25
                      \/ /\ mode = "zone"
                         /\ ~pct25
                         /\ 16 * h1 + h2 # 32
                         /\ shouldEscapeHost(16 * h1 + h2)
              IN  IF escapeError(unhex(ByteOf[CharAt(t, i + 1)]),
                                 unhex(ByteOf[CharAt(t, i + 2)]),
                                 SubSeq(t, i, i + 2) = "%25")
                  THEN ErrorsNew("invalid URL escape %q")
                  ELSE unescape(t, i + 3, mode)
    ELSE LET hostError(b) ==
                 mode \in {"host", "zone"} /\ b < 128 /\ shouldEscapeHost(b)
         IN  IF hostError(ByteOf[CharAt(t, i)])
             THEN ErrorsNew("invalid character %q in host name")
             ELSE unescape(t, i + 1, mode)

\* The first of two errors that is one.
OrElse(e1, e2) == IF e1 # Nil THEN e1 ELSE e2

\* net/url parseHost, its error: for a host in brackets, the closing bracket
\* at i, the port after it, and the zone from the first "%25" on, at z
\* (0: none); for another host the port from the last colon on.
\* validOptionalPort accepts nothing, or a colon and digits.
parseHost(host) ==
    LET validOptionalPort(port) ==
            \/ port = ""
            \/ /\ CharAt(port, 1) = ":"
               /\ \A k \in 2..Len(port) : IsDigitByte(ByteOf[CharAt(port, k)])
        bracketed(i, z) ==
            IF i = 0 THEN ErrorsNew("missing ']' in host")
            ELSE IF ~validOptionalPort(SubSeq(host, i + 1, Len(host)))
            THEN ErrorsNew("invalid port %q after host")
            ELSE IF z = 0 THEN unescape(host, 1, "host")
            ELSE OrElse(unescape(SubSeq(host, 1, z - 1), 1, "host"),
                        OrElse(unescape(SubSeq(host, z, i - 1), 1, "zone"),
                               unescape(SubSeq(host, i, Len(host)), 1, "host")))
        zoneIn(inside) ==
            IF \E z \in 1..(Len(inside) - 2) : SubSeq(inside, z, z + 2) = "%25"
            THEN CHOOSE z \in 1..(Len(inside) - 2) :
                    /\ SubSeq(inside, z, z + 2) = "%25"
                    /\ \A y \in 1..(z - 1) : SubSeq(inside, y, y + 2) # "%25"
            ELSE 0
        plain(i) ==
            IF i # 0 /\ ~validOptionalPort(SubSeq(host, i, Len(host)))
            THEN ErrorsNew("invalid port %q after host")
            ELSE unescape(host, 1, "host")
    IN  IF HasPrefix(host, "[")
        THEN bracketed(LastIndexByte(host, "]"),
                       zoneIn(SubSeq(host, 1, LastIndexByte(host, "]") - 1)))
        ELSE plain(LastIndexByte(host, ":"))

\* net/url parseAuthority, its error: the host after the last "@", at i,
\* first; then the user information before it, which validUserinfo must
\* accept, the name and then the password.
parseAuthority(authority) ==
    LET validUserinfo(userinfo) ==
            \A k \in 1..Len(userinfo) :
                LET b == ByteOf[CharAt(userinfo, k)]
                IN  \/ IsLetterByte(b)
                    \/ IsDigitByte(b)
                    \/ b \in BytesOf("-._:~!$&'()*+,;=%@")
        user(i, userinfo) ==
            IF i = 0 THEN Nil
            ELSE IF ~validUserinfo(userinfo)
            THEN ErrorsNew("net/url: invalid userinfo")
            ELSE OrElse(unescape(CutBefore(userinfo, ":"), 1, "userPassword"),
                        unescape(CutAfter(userinfo, ":"), 1, "userPassword"))
        parsed(i) ==
            OrElse(parseHost(SubSeq(authority, i + 1, Len(authority))),
                   user(i, SubSeq(authority, 1, i - 1)))
    IN  parsed(LastIndexByte(authority, "@"))

\* net/url parse(rawURL, false), its error: the control characters, the
\* scheme, the query cut off, the authority after "//", the path.
url_parse(rawURL) ==
    LET afterAuthority(rest, authority) ==
            OrElse(parseAuthority(authority),
                   unescape(SubSeq(rest, 3 + Len(authority), Len(rest)), 1, "path"))
        afterScheme(scheme, rest) ==
            IF ~HasPrefix(rest, "/") /\ scheme # "" THEN Nil
            ELSE IF /\ ~HasPrefix(rest, "/")
                    /\ IndexByte(CutBefore(rest, "/"), ":") # 0
            THEN ErrorsNew("first path segment in URL cannot contain colon")
            ELSE IF /\ HasPrefix(rest, "//")
                    /\ (scheme # "" \/ ~HasPrefix(rest, "///"))
            THEN afterAuthority(rest, CutBefore(SubSeq(rest, 3, Len(rest)), "/"))
            ELSE unescape(rest, 1, "path")
        withScheme(got) ==
            IF got.err # Nil THEN got.err
            ELSE afterScheme(got.scheme, CutBefore(got.rest, "?"))
    IN  IF stringContainsCTLByte(rawURL)
        THEN ErrorsNew("net/url: invalid control character in URL")
        ELSE IF rawURL = "*" THEN Nil
        ELSE withScheme(getScheme(rawURL))

\* url.Parse as http.NewRequestWithContext calls it: the error, a *url.Error
\* around the cause, or Nil.  The fragment is cut off at the first "#" and
\* unescaped last.
URL_Parse(rawURL) ==
    LET wrapped(cause) == IF cause # Nil THEN Wrap("parse %q", cause) ELSE Nil
    IN  wrapped(OrElse(url_parse(CutBefore(rawURL, "#")),
                       unescape(CutAfter(rawURL, "#"), 1, "fragment")))

NoRequest ==
    [method |-> "", url |-> "", contentType |-> "", authorization |-> "",
     accept |-> "", body |-> <<>>]

NoResponse == [status |-> 0, body |-> <<>>]

\* No response body to read.  A body is how far it has been read and how it
\* ends once its bytes are read: with EOF, or with an error of Read (the
\* connection breaks, the context is cancelled).
NoBody == [pos |-> 0, ends |-> "EOF"]

\* The error a failing Read of resp.Body returns.
ErrBodyRead == Sentinel("io.ErrUnexpectedEOF", "unexpected EOF")

\* ParseAspectRatio has not returned yet.
NoParse == ParseResult(TRUE, AR(0, 0), Nil)

----------------------------------------------------------------------------
(* The byte stream behind Generate3Request.Image *)

\* A stream: whether it is open, how far it has been read ("unread", "partial":
\* bytes were read but not the end, "eof": read to its end, "failed": a Read
\* returned an error), and the calls of Close made on it.
Stream(state, read) == [state |-> state, read |-> read, closes |-> 0]

NoStream == Stream("none", "unread")

\* The stream of a request the caller built: open and unread, or none for a
\* nil Image.
StreamOf(src) == IF src.isNil THEN NoStream ELSE Stream("open", "unread")

\* toFormData closing the stream once it has copied it.
ImageAfter_Closes(img, g, r) ==
    LET out == r.w.out
        created == \E i \in 1..Len(out) : out[i] = Header("image")
    IN  IF g.Image.isNil \/ ~created THEN img
        ELSE [img EXCEPT !.read = "eof", !.state = "closed", !.closes = @ + 1]

\* sd3.go 130-138: what toFormData, having returned r, did to the stream.
\* io.Copy is reached once the image part has been created; it calls Read
\* until the end, the error of Read, or a failed Write of what was read.
\* Nothing in toFormData calls Close.
ImageAfter(img, g, r) ==
    LET out == r.w.out
        created == \E i \in 1..Len(out) : out[i] = Header("image")
        unwritten == /\ StrLen(g.Image.data) > 0
                     /\ out[Len(out)] = Header("image")
    IN  IF g.Image.isNil \/ ~created THEN img
        ELSE IF unwritten THEN [img EXCEPT !.read = "partial"]
        ELSE IF g.Image.fails THEN [img EXCEPT !.read = "failed"]
        ELSE [img EXCEPT !.read = "eof"]

----------------------------------------------------------------------------
(* The command layer and the second call, before either has started *)

NoCommand ==
    [PromptParts |-> <<>>, Ratio |-> "", Model |-> "", OutputFormat |-> "",
     NegativePrompt |-> "", Strength |-> F32(0), Image |-> ""]

NoConfig == [APIKey |-> "", OutputDirectory |-> "", PostGenerationCommand |-> ""]

\* No bytes: an empty buffer, an empty file.
NoBytes == <<>>

\* Gen3Command.Run not called: exit is the exit status of the process (-1
\* while it runs), log what the logger wrote, posts the post-generation
\* commands started, statErr the error os.Stat returned, fd the descriptor
\* of os.WriteFile.
NotRun ==
    [pc |-> "idle", prompt |-> EmptyStr, imageWithNewExif |-> NoBytes,
     outputFile |-> "", now |-> 0, log |-> <<>>, exit |-> -1, posts |-> <<>>,
     statErr |-> Nil,
     fd |-> [state |-> "none", off |-> 0, err |-> Nil, created |-> FALSE,
             linked |-> TRUE]]

NoFiles == [path \in {} |-> NoBytes]

NoCall == [pc |-> "none"]

\* No other invocation of the command.
NoPeer ==
    [pc |-> "none", path |-> "",
     fd |-> [state |-> "none", off |-> 0, err |-> Nil, created |-> FALSE,
             linked |-> TRUE]]

----------------------------------------------------------------------------
(* Client.Generate3: one call, step by step *)

VARIABLES
    options,       \* the options NewClient was called with
    client,        \* the *Client
    req,           \* generateRequest
    writeToFails,  \* whether writeTo rejects a Write
    formFailAt,    \* the Write the sink under formWriter fails (0: none)
    ratioStr,      \* the string AspectRatio.String gave, ParseAspectRatio takes
    parsed,        \* what ParseAspectRatio returned
    pc,            \* the position of the call
    err,           \* the error the call returns (at "done")
    formBuf,       \* formWriter over formBuf
    formCalls,     \* calls of toFormData so far
    httpReq,       \* req, once built
    sent,          \* the requests handed to httpClient.Do, in order
    resp,          \* the response of httpClient.Do
    doErr,         \* the error of httpClient.Do
    bodyClosed,    \* calls of resp.Body.Close so far
    bodyRead,      \* how far resp.Body has been read, and how it ends
    sink,          \* the bytes written to writeTo
    image,         \* the byte stream behind generateRequest.Image
    command,       \* the Gen3Command (g of Gen3Command.Run)
    config,        \* ctx.Config
    run,           \* the position and the locals of Gen3Command.Run
    fs,            \* the files of the output directory, by path
    peer,          \* another invocation of the command: its position, its path,
                   \* the descriptor of its os.WriteFile
    cur,           \* the call of Generate3 that is running
    other          \* the locals of the call of Generate3 that is not

vars ==
    <<options, client, req, writeToFails, formFailAt, ratioStr, parsed, pc,
      err, formBuf, formCalls, httpReq, sent, resp, doErr, bodyClosed,
      bodyRead, sink, image, command, config, run, fs, peer, cur, other>>

\* The state of the command layer, and of the scheduling of two calls.
cmdVars == <<command, config, run, fs, peer>>

schedVars == <<cur, other>>

\* One call of Generate3 made directly: no command, no second call.
OneCall ==
    /\ command = NoCommand
    /\ config = NoConfig
    /\ run = NotRun
    /\ fs = NoFiles
    /\ peer = NoPeer
    /\ cur = 1
    /\ other = NoCall
    /\ image = StreamOf(req.Image)

\* The state before anything has run.
Fresh ==
    /\ err = Nil
    /\ formBuf = NewWriter(0, "")
    /\ formCalls = 0
    /\ httpReq = NoRequest
    /\ sent = <<>>
    /\ resp = NoResponse
    /\ doErr = Nil
    /\ bodyClosed = 0
    /\ bodyRead = NoBody
    /\ sink = <<>>
    /\ parsed = NoParse

Init ==
    /\ options \in ClientOptionLists
    /\ client = NewClient("sk-test", options)
    /\ req \in Requests
    /\ writeToFails \in BOOLEAN
    /\ formFailAt = 0
    /\ ratioStr = ""
    /\ pc = "validate"
    /\ Fresh
    /\ OneCall

\* Generate3 going on to serialize although validation failed.
Generate3_validate_NoReturn ==
    /\ pc = "validate"
    /\ pc' = "toFormData"
    /\ UNCHANGED <<cmdVars, schedVars, image, options, client, req,
                   writeToFails, formFailAt, ratioStr, parsed, doErr, err,
                   formBuf, formCalls, httpReq, sent, resp, bodyClosed, bodyRead, sink>>

\* client.go 90-92: validation, and the return on its failure.
Generate3_validate ==
    /\ pc = "validate"
    /\ LET e == Generate3Request_validate(req)
       IN  IF e # Nil
           THEN /\ err' = Wrap("Generate3Request is invalid", e)
                /\ pc' = "done"
           ELSE /\ pc' = "toFormData"
                /\ UNCHANGED err
    /\ UNCHANGED <<cmdVars, schedVars, image, options, client, req,
                   writeToFails, formFailAt, ratioStr, parsed, doErr, formBuf,
                   formCalls, httpReq, sent, resp, bodyClosed, bodyRead, sink>>

\* Generate3 going on to close and send although toFormData failed.
Generate3_toFormData_IgnoreErr ==
    /\ pc = "toFormData"
    /\ formCalls' = formCalls + 1
    /\ \E b \in Boundaries :
       LET r == Generate3Request_toFormData(req, NewWriter(formFailAt, b))
       IN  /\ image' = ImageAfter(image, req, r)
           /\ IF r.panic
              THEN /\ formBuf' = r.w
                   /\ pc' = "panic"
                   /\ UNCHANGED err
              ELSE /\ formBuf' = r.w
                   /\ pc' = "close"
                   /\ UNCHANGED err
    /\ UNCHANGED <<cmdVars, schedVars, options, client, req, writeToFails,
                   formFailAt, ratioStr, parsed, doErr, httpReq, sent, resp,
                   bodyClosed, bodyRead, sink>>

\* client.go 94-104: the form buffer, its writer, and toFormData.
Generate3_toFormData ==
    /\ pc = "toFormData"
    /\ formCalls' = formCalls + 1
    /\ \E b \in Boundaries :
       LET r == Generate3Request_toFormData(req, NewWriter(formFailAt, b))
       IN  /\ image' = ImageAfter(image, req, r)
           /\ IF r.panic
              THEN /\ formBuf' = r.w
                   /\ pc' = "panic"
                   /\ UNCHANGED err
              ELSE IF r.err # Nil
              THEN /\ formBuf' = Writer_Close(r.w).w
                   /\ err' = Wrap("failed to generate form data for Generate3 request", r.err)
                   /\ pc' = "done"
              ELSE /\ formBuf' = r.w
                   /\ pc' = "close"
                   /\ UNCHANGED err
    /\ UNCHANGED <<cmdVars, schedVars, options, client, req, writeToFails,
                   formFailAt, ratioStr, parsed, doErr, httpReq, sent, resp,
                   bodyClosed, bodyRead, sink>>

\* client.go 106-108: formWriter.Close().
Generate3_close ==
    /\ pc = "close"
    /\ LET c == Writer_Close(formBuf)
       IN  /\ formBuf' = c.w
           /\ IF c.err # Nil
              THEN /\ err' = Wrap("failed to close form writer", c.err)
                   /\ pc' = "done"
              ELSE /\ pc' = "newRequest"
                   /\ UNCHANGED err
    /\ UNCHANGED <<cmdVars, schedVars, image, options, client, req,
                   writeToFails, formFailAt, ratioStr, parsed, doErr,
                   formCalls, httpReq, sent, resp, bodyClosed, bodyRead, sink>>

\* The Content-Type header taken from a writer other than the one that
\* wrote the body.
Generate3_newRequest_OtherWriter ==
    /\ pc = "newRequest"
    /\ LET reqURL == client.baseURL \o "/v2beta/stable-image/generate/sd3"
           e == URL_Parse(reqURL)
       IN  IF e # Nil
           THEN /\ err' = Wrap("failed to create request", e)
                /\ pc' = "done"
                /\ UNCHANGED httpReq
           ELSE /\ httpReq' =
                      [method |-> "POST",
                       url |-> reqURL,
                       contentType |-> FormDataContentType(NewWriter(0, "0000")),
                       authorization |-> "Bearer " \o client.apiKey,
                       accept |-> "image/*",
                       body |-> formBuf.out]
                /\ pc' = "do"
                /\ UNCHANGED err
    /\ UNCHANGED <<cmdVars, schedVars, image, options, client, req,
                   writeToFails, formFailAt, ratioStr, parsed, doErr, formBuf,
                   formCalls, sent, resp, bodyClosed, bodyRead, sink>>

\* client.go 94, 110-117: the request, the return when it cannot be built,
\* and its headers.
Generate3_newRequest ==
    /\ pc = "newRequest"
    /\ LET reqURL == client.baseURL \o "/v2beta/stable-image/generate/sd3"
           e == URL_Parse(reqURL)
       IN  IF e # Nil
           THEN /\ err' = Wrap("failed to create request", e)
                /\ pc' = "done"
                /\ UNCHANGED httpReq
           ELSE /\ httpReq' =
                      [method |-> "POST",
                       url |-> reqURL,
                       contentType |-> FormDataContentType(formBuf),
                       authorization |-> "Bearer " \o client.apiKey,
                       accept |-> "image/*",
                       body |-> formBuf.out]
                /\ pc' = "do"
                /\ UNCHANGED err
    /\ UNCHANGED <<cmdVars, schedVars, image, options, client, req,
                   writeToFails, formFailAt, ratioStr, parsed, doErr, formBuf,
                   formCalls, sent, resp, bodyClosed, bodyRead, sink>>

\* The request handed to the HTTP handle a second time.
Generate3_do_Retry ==
    /\ pc = "do"
    /\ sent' = sent \o <<httpReq, httpReq>>
    /\ pc' = "inDo"
    /\ UNCHANGED <<cmdVars, schedVars, image, options, client, req,
                   writeToFails, formFailAt, ratioStr, parsed, err, doErr,
                   formBuf, formCalls, httpReq, resp, bodyClosed, bodyRead,
                   sink>>

\* client.go 119: c.httpClient.Do(req) hands the request to the HTTP handle
\* of the Client; the call then waits for the answer.
Generate3_do ==
    /\ pc = "do"
    /\ sent' = Append(sent, httpReq)
    /\ pc' = "inDo"
    /\ UNCHANGED <<cmdVars, schedVars, image, options, client, req,
                   writeToFails, formFailAt, ratioStr, parsed, err, doErr,
                   formBuf, formCalls, httpReq, resp, bodyClosed, bodyRead,
                   sink>>

\* client.go 119-122: httpClient.Do returns: an error, which Generate3
\* returns formatted with %v, or the response, its body yet to be read
\* (how the body ends, with EOF or with an error of Read, is decided by the
\* connection).
Generate3_doReturns ==
    /\ pc = "inDo"
    /\ \/ \E f \in TransportFaults :
            /\ doErr' = f
            /\ err' = Flatten("failed to send request", f)
            /\ pc' = "done"
            /\ UNCHANGED <<resp, bodyRead>>
       \/ \E st \in Statuses, b \in Bodies, e \in {"EOF", "error"} :
            /\ resp' = [status |-> st, body |-> b]
            /\ bodyRead' = [pos |-> 0, ends |-> e]
            /\ pc' = "response"
            /\ UNCHANGED <<err, doErr>>
    /\ UNCHANGED <<cmdVars, schedVars, image, options, client, req,
                   writeToFails, formFailAt, ratioStr, parsed, formBuf,
                   formCalls, httpReq, sent, bodyClosed, sink>>

\* The body of a response whose status is not 200 written to writeTo as it
\* is read.
Generate3_unexpectedStatus_ToSink ==
    /\ pc = "response"
    /\ resp.status # 200
    /\ LET left == Len(resp.body) - bodyRead.pos
       IN  IF left > 0
           THEN /\ \E k \in 1..left :
                     /\ bodyRead' = [bodyRead EXCEPT !.pos = @ + k]
                     /\ sink' = sink \o SubSeq(resp.body, bodyRead.pos + 1,
                                               bodyRead.pos + k)
                /\ UNCHANGED <<err, pc>>
           ELSE /\ err' = [ctx |-> <<"got unexpected status code %d while generating image. Response: %s">>,
                           is |-> {}, status |-> resp.status,
                           body |-> SubSeq(resp.body, 1, bodyRead.pos)]
                /\ pc' = "return"
                /\ UNCHANGED <<bodyRead, sink>>
    /\ UNCHANGED <<cmdVars, schedVars, image, options, client, req,
                   writeToFails, formFailAt, ratioStr, parsed, doErr, formBuf,
                   formCalls, httpReq, sent, resp, bodyClosed>>

\* The unexpected-status failure built without the bytes read from the
\* response body.
Generate3_unexpectedStatus_NoBody ==
    /\ pc = "response"
    /\ resp.status # 200
    /\ LET left == Len(resp.body) - bodyRead.pos
       IN  IF left > 0
           THEN /\ \E k \in 1..left :
                     bodyRead' = [bodyRead EXCEPT !.pos = @ + k]
                /\ UNCHANGED <<err, pc>>
           ELSE /\ err' = [ctx |-> <<"got unexpected status code %d while generating image. Response: %s">>,
                           is |-> {}, status |-> resp.status, body |-> <<>>]
                /\ pc' = "return"
                /\ UNCHANGED bodyRead
    /\ UNCHANGED <<cmdVars, schedVars, image, options, client, req,
                   writeToFails, formFailAt, ratioStr, parsed, doErr, formBuf,
                   formCalls, httpReq, sent, resp, bodyClosed, sink>>

\* client.go 125-128: one turn of the loop of io.ReadAll(resp.Body).  Read
\* gives some of the bytes left; with no byte left it gives EOF or its
\* error, which is dropped, and the failure is built from the status and
\* the bytes read.
Generate3_unexpectedStatus ==
    /\ pc = "response"
    /\ resp.status # 200
    /\ LET left == Len(resp.body) - bodyRead.pos
       IN  IF left > 0
           THEN /\ \E k \in 1..left :
                     bodyRead' = [bodyRead EXCEPT !.pos = @ + k]
                /\ UNCHANGED <<err, pc>>
           ELSE /\ err' = [ctx |-> <<"got unexpected status code %d while generating image. Response: %s">>,
                           is |-> {}, status |-> resp.status,
                           body |-> SubSeq(resp.body, 1, bodyRead.pos)]
                /\ pc' = "return"
                /\ UNCHANGED bodyRead
    /\ UNCHANGED <<cmdVars, schedVars, image, options, client, req,
                   writeToFails, formFailAt, ratioStr, parsed, doErr, formBuf,
                   formCalls, httpReq, sent, resp, bodyClosed, sink>>

\* The copy to writeTo taking the last byte of the body for its end.
Generate3_copy_Short ==
    /\ pc = "response"
    /\ resp.status = 200
    /\ LET left == Len(resp.body) - bodyRead.pos - 1
       IN  IF left > 0
           THEN \E k \in 1..left :
                  /\ bodyRead' = [bodyRead EXCEPT !.pos = @ + k]
                  /\ IF writeToFails
                     THEN /\ err' = Wrap("failed to copy image to writer", ErrSinkWrite)
                          /\ pc' = "return"
                          /\ UNCHANGED sink
                     ELSE /\ sink' = sink \o SubSeq(resp.body, bodyRead.pos + 1,
                                                    bodyRead.pos + k)
                          /\ UNCHANGED <<err, pc>>
           ELSE /\ pc' = "return"
                /\ UNCHANGED <<err, bodyRead, sink>>
    /\ UNCHANGED <<cmdVars, schedVars, image, options, client, req,
                   writeToFails, formFailAt, ratioStr, parsed, doErr, formBuf,
                   formCalls, httpReq, sent, resp, bodyClosed>>

\* client.go 130-133: one turn of the loop of io.Copy(writeTo, resp.Body).
\* Read gives some of the bytes left, which are written to writeTo; a Write
\* that fails takes a part of them at most and ends the copy.  With no byte
\* left Read gives EOF, and io.Copy returns nil, or its error, which
\* Generate3 wraps with %w.
Generate3_copy ==
    /\ pc = "response"
    /\ resp.status = 200
    /\ LET left == Len(resp.body) - bodyRead.pos
       IN  IF left > 0
           THEN \E k \in 1..left :
                  /\ bodyRead' = [bodyRead EXCEPT !.pos = @ + k]
                  /\ IF writeToFails
                     THEN \E n \in 0..(k - 1) :
                            /\ sink' = sink \o SubSeq(resp.body, bodyRead.pos + 1,
                                                      bodyRead.pos + n)
                            /\ err' = Wrap("failed to copy image to writer", ErrSinkWrite)
                            /\ pc' = "return"
                     ELSE /\ sink' = sink \o SubSeq(resp.body, bodyRead.pos + 1,
                                                    bodyRead.pos + k)
                          /\ UNCHANGED <<err, pc>>
           ELSE /\ err' = IF bodyRead.ends = "EOF" THEN Nil
                          ELSE Wrap("failed to copy image to writer", ErrBodyRead)
                /\ pc' = "return"
                /\ UNCHANGED <<bodyRead, sink>>
    /\ UNCHANGED <<cmdVars, schedVars, image, options, client, req,
                   writeToFails, formFailAt, ratioStr, parsed, doErr, formBuf,
                   formCalls, httpReq, sent, resp, bodyClosed>>

\* The response body closed only when Generate3 returns nil (a Close written
\* after the copy instead of deferred).
Generate3_return_CloseOnSuccess ==
    /\ pc = "return"
    /\ bodyClosed' = IF err = Nil THEN bodyClosed + 1 ELSE bodyClosed
    /\ pc' = "done"
    /\ UNCHANGED <<cmdVars, schedVars, image, options, client, req,
                   writeToFails, formFailAt, ratioStr, parsed, err, doErr,
                   formBuf, formCalls, httpReq, sent, resp, bodyRead, sink>>

\* client.go 123: the deferred resp.Body.Close(), run when Generate3 returns
\* at 128, 132 or 135.
Generate3_return ==
    /\ pc = "return"
    /\ bodyClosed' = bodyClosed + 1
    /\ pc' = "done"
    /\ UNCHANGED <<cmdVars, schedVars, image, options, client, req,
                   writeToFails, formFailAt, ratioStr, parsed, err, doErr,
                   formBuf, formCalls, httpReq, sent, resp, bodyRead, sink>>

\* client.go 43-45: validation; its error is returned as it is.
GenerateUltra_validate ==
    /\ pc = "ultraValidate"
    /\ LET e == GenerateUltraRequest_validate(req)
       IN  IF e # Nil
           THEN /\ err' = e
                /\ pc' = "done"
           ELSE /\ pc' = "ultraToFormData"
                /\ UNCHANGED err
    /\ UNCHANGED <<cmdVars, schedVars, image, options, client, req,
                   writeToFails, formFailAt, ratioStr, parsed, doErr, formBuf,
                   formCalls, httpReq, sent, resp, bodyClosed, bodyRead, sink>>

\* client.go 49-56: the form buffer, its writer, and toFormData; the writer
\* is closed on the failure of toFormData, and there only.
GenerateUltra_toFormData ==
    /\ pc = "ultraToFormData"
    /\ formCalls' = formCalls + 1
    /\ \E b \in Boundaries :
       LET r == GenerateUltraRequest_toFormData(req, NewWriter(formFailAt, b))
       IN  IF r.err # Nil
           THEN /\ formBuf' = Writer_Close(r.w).w
                /\ err' = Wrap("failed to generate form data for request", r.err)
                /\ pc' = "done"
           ELSE /\ formBuf' = r.w
                /\ pc' = "ultraNewRequest"
                /\ UNCHANGED err
    /\ UNCHANGED <<cmdVars, schedVars, image, options, client, req,
                   writeToFails, formFailAt, ratioStr, parsed, doErr, httpReq,
                   sent, resp, bodyClosed, bodyRead, sink>>

\* client.go 47, 58-65: the request, the return when it cannot be built,
\* and its headers.  From here GenerateUltra goes on as Generate3 does
\* (client.go 67-83 are 119-135 again).
GenerateUltra_newRequest ==
    /\ pc = "ultraNewRequest"
    /\ LET reqURL == client.baseURL \o "/v2beta/stable-image/generate/ultra"
           e == URL_Parse(reqURL)
       IN  IF e # Nil
           THEN /\ err' = Wrap("failed to create HTTP request", e)
                /\ pc' = "done"
                /\ UNCHANGED httpReq
           ELSE /\ httpReq' =
                      [method |-> "POST",
                       url |-> reqURL,
                       contentType |-> FormDataContentType(formBuf),
                       authorization |-> "Bearer " \o client.apiKey,
                       accept |-> "image/*",
                       body |-> formBuf.out]
                /\ pc' = "do"
                /\ UNCHANGED err
    /\ UNCHANGED <<cmdVars, schedVars, image, options, client, req,
                   writeToFails, formFailAt, ratioStr, parsed, doErr, formBuf,
                   formCalls, sent, resp, bodyClosed, bodyRead, sink>>

\* One step of a call of Generate3.
NextGenerate3 ==
    \/ Generate3_validate
    \/ Generate3_toFormData
    \/ Generate3_close
    \/ Generate3_newRequest
    \/ Generate3_do
    \/ Generate3_doReturns
    \/ Generate3_unexpectedStatus
    \/ Generate3_copy
    \/ Generate3_return

Spec == Init /\ [][NextGenerate3]_vars

\* One call of a public method of the Client: Generate3, with one of three
\* requests, or GenerateUltra.
InitClient ==
    /\ options \in ClientOptionLists
    /\ client = NewClient("sk-test", options)
    /\ \/ /\ req \in {ScenarioA,
                      [ScenarioA EXCEPT !.Image = Reader(Str("IMG")),
                                        !.Strength = F32(4)],
                      [ScenarioA EXCEPT !.Model = "sd3"]}
          /\ pc = "validate"
          /\ image = StreamOf(req.Image)
       \/ /\ req \in UltraRequests
          /\ pc = "ultraValidate"
          /\ image = NoStream
    /\ writeToFails \in BOOLEAN
    /\ formFailAt = 0
    /\ ratioStr = ""
    /\ Fresh
    /\ command = NoCommand
    /\ config = NoConfig
    /\ run = NotRun
    /\ fs = NoFiles
    /\ peer = NoPeer
    /\ cur = 1
    /\ other = NoCall

\* One step of a call of a public method of the Client.
Next ==
    \/ NextGenerate3
    \/ GenerateUltra_validate
    \/ GenerateUltra_toFormData
    \/ GenerateUltra_newRequest

SpecClient == InitClient /\ [][Next]_vars

----------------------------------------------------------------------------
(* Client.Generate3 with faults injected into the form buffer: the sink of  *)
(* formWriter is a bytes.Buffer, whose Write never returns an error, so the *)
(* only failure of toFormData the program itself meets is a failing Read of *)
(* the image; here any one Write of the sink may fail as well, which takes  *)
(* the call through every error return of toFormData and of client.go       *)
(* 100-108                                                                  *)

\* Valid requests that differ in the fields toFormData writes or omits.
FaultyRequests ==
    [AspectRatio : {AR(1, 1)}, Prompt : {Str("a bear riding a unicycle")},
     Model : {SD3Large}, OutputFormat : OutputFormats,
     NegativePrompt : {EmptyStr, Str("blurry")}, Strength : {F32(0), F32(4)},
     Image : {Reader(Str("IMG")), FailingReader(Str("IM"))}]

InitFaulty ==
    /\ options = <<>>
    /\ client = NewClient("sk-test", options)
    /\ req \in FaultyRequests
    /\ writeToFails = FALSE
    /\ formFailAt \in 0..MaxFailAt
    /\ ratioStr = ""
    /\ pc = "validate"
    /\ Fresh
    /\ OneCall

SpecFaulty == InitFaulty /\ [][NextGenerate3]_vars

----------------------------------------------------------------------------
(* Generate3Request.toFormData called on its own, on any request (validated *)
(* or not) and on a writer over any sink, failing or not                    *)

\* The requests of the direct calls: every combination of the other fields
\* with three of the aspect ratios.
DirectRequests ==
    [AspectRatio : {AR(1, 1), AR(16, 9), AR(-1, 1)}, Prompt : Prompts,
     Model : Models, OutputFormat : OutputFormats,
     NegativePrompt : NegativePrompts, Strength : Strengths, Image : Images]

InitDirect ==
    /\ options = <<>>
    /\ client = NewClient("sk-test", options)
    /\ req \in DirectRequests
    /\ writeToFails = FALSE
    /\ formFailAt \in 0..MaxFailAt
    /\ ratioStr = ""
    /\ pc = "call"
    /\ Fresh
    /\ OneCall

\* sd3.go 97-145: one call of toFormData, to its return or its fault.
Call_toFormData ==
    /\ pc = "call"
    /\ formCalls' = formCalls + 1
    /\ \E b \in Boundaries :
       LET r == Generate3Request_toFormData(req, NewWriter(formFailAt, b))
       IN  /\ image' = ImageAfter(image, req, r)
           /\ formBuf' = r.w
           /\ err' = r.err
           /\ pc' = IF r.panic THEN "panic" ELSE "returned"
    /\ UNCHANGED <<cmdVars, schedVars, options, client, req, writeToFails,
                   formFailAt, ratioStr, parsed, doErr, httpReq, sent, resp,
                   bodyClosed, bodyRead, sink>>

NextDirect == Call_toFormData

SpecDirect == InitDirect /\ [][NextDirect]_vars

----------------------------------------------------------------------------
(* AspectRatio.String and ParseAspectRatio called on their own: a ratio is  *)
(* rendered and the rendering parsed, or a string is parsed as it comes     *)

RECURSIVE StringsUpTo(_, _)
StringsUpTo(S, n) ==
    IF n = 0 THEN {""}
    ELSE LET shorter == StringsUpTo(S, n - 1)
         IN  shorter \cup {t \o c : t \in shorter, c \in S}

\* The strings handed to ParseAspectRatio as they come: those over the
\* bytes of RatioChars, and the examples.
RatioStrings ==
    LET RatioChars == {"1", "6", ":", "a", "-", "+"}
    IN  StringsUpTo(RatioChars, MaxRatioLen) \cup {"16", "1:2:3", "a:b"}

InitParse ==
    /\ options = <<>>
    /\ client = NewClient("sk-test", options)
    /\ writeToFails = FALSE
    /\ formFailAt = 0
    /\ Fresh
    /\ \/ /\ pc = "string"
          /\ req \in {[ScenarioA EXCEPT !.AspectRatio = a] : a \in AspectRatios}
          /\ ratioStr = ""
       \/ /\ pc = "parseRaw"
          /\ req = ScenarioA
          /\ ratioStr \in RatioStrings
    /\ OneCall

\* aspect_ratio.go 18-20: the ratio of the request is rendered.
Call_String ==
    /\ pc = "string"
    /\ ratioStr' = AspectRatio_String(req.AspectRatio)
    /\ pc' = "parse"
    /\ UNCHANGED <<cmdVars, schedVars, image, options, client, req,
                   writeToFails, formFailAt, parsed, err, formBuf, formCalls,
                   httpReq, sent, resp, doErr, bodyClosed, bodyRead, sink>>

\* aspect_ratio.go 63-85: the string is parsed.
Call_ParseAspectRatio ==
    /\ pc \in {"parse", "parseRaw"}
    /\ parsed' = ParseAspectRatio(ratioStr)
    /\ pc' = IF pc = "parse" THEN "parsed" ELSE "parsedRaw"
    /\ UNCHANGED <<cmdVars, schedVars, image, options, client, req,
                   writeToFails, formFailAt, ratioStr, err, formBuf, formCalls,
                   httpReq, sent, resp, doErr, bodyClosed, bodyRead, sink>>

NextParse ==
    \/ Call_String
    \/ Call_ParseAspectRatio

SpecParse == InitParse /\ [][NextParse]_vars

----------------------------------------------------------------------------
(* The gen-3 command: Gen3Command.Run, with the call of Generate3 it makes *)

\* strings.Join(parts, sep)
RECURSIVE strings_Join(_, _)
strings_Join(parts, sep) ==
    IF Len(parts) = 0 THEN ""
    ELSE IF Len(parts) = 1 THEN parts[1]
    ELSE parts[1] \o sep \o strings_Join(Tail(parts), sep)

\* strings.Split(t, "/") from the i-th byte on, elem being the element begun.
RECURSIVE SplitPath(_, _, _)
SplitPath(t, i, elem) ==
    IF i > Len(t) THEN <<elem>>
    ELSE IF CharAt(t, i) = "/" THEN <<elem>> \o SplitPath(t, i + 1, "")
    ELSE SplitPath(t, i + 1, elem \o CharAt(t, i))

\* filepath.Clean, element by element: empty elements and "." are dropped,
\* ".." takes back the element before it, stays at the head of a relative
\* path and is dropped at the root.
RECURSIVE CleanElems(_, _, _, _)
CleanElems(elems, i, out, rooted) ==
    IF i > Len(elems) THEN out
    ELSE IF elems[i] \in {"", "."} THEN CleanElems(elems, i + 1, out, rooted)
    ELSE IF elems[i] = ".."
    THEN IF out # <<>> /\ out[Len(out)] # ".."
         THEN CleanElems(elems, i + 1, SubSeq(out, 1, Len(out) - 1), rooted)
         ELSE IF rooted THEN CleanElems(elems, i + 1, out, rooted)
         ELSE CleanElems(elems, i + 1, Append(out, ".."), rooted)
    ELSE CleanElems(elems, i + 1, Append(out, elems[i]), rooted)

\* filepath.Clean(path), with "/" for the separator.
filepath_Clean(path) ==
    IF path = "" THEN "."
    ELSE LET rooted == CharAt(path, 1) = "/"
             joined == strings_Join(CleanElems(SplitPath(path, 1, ""), 1, <<>>, rooted), "/")
         IN  IF rooted THEN "/" \o joined
             ELSE IF joined = "" THEN "." ELSE joined

\* filepath.Join(dir, name): the elements from the first that is not empty
\* on, joined with "/" and cleaned; "" when both are empty.
filepath_Join(dir, name) ==
    IF dir # "" THEN filepath_Clean(dir \o "/" \o name)
    ELSE IF name # "" THEN filepath_Clean(name)
    ELSE ""

\* Generate3Request{}: the zero value of the request.
ZeroRequest ==
    [AspectRatio |-> AR(0, 0), Prompt |-> EmptyStr, Model |-> "",
     OutputFormat |-> "", NegativePrompt |-> EmptyStr, Strength |-> F32(0),
     Image |-> NilReader]

\* The files os.Open finds, with their bytes.
InputFiles == [path \in {"ref.png"} |-> Str("IMG")]

\* getExifAdder(format): the error, or Nil when the format has an adder.
getExifAdder(format) ==
    IF format \in {"jpeg", "png"} THEN Nil
    ELSE ErrorsNew("unknown output format %q")

\* The error a call into the image or the Exif library returns.
ErrLibrary == ErrorsNew("library error")

\* addMetadata: the IFD0 builder, the Artist tag, the ImageDescription tag.
addMetadata(fault) ==
    IF fault = "ifd0" THEN Wrap("failed to create IFD0 ib", ErrLibrary)
    ELSE IF fault = "artist" THEN Wrap("failed to set Artist tag", ErrLibrary)
    ELSE IF fault = "description"
    THEN Wrap("failed to set ImageDescription tag", ErrLibrary)
    ELSE Nil

\* An Exif tag among the bytes of an image.
ExifTag(tag, val) == [tag |-> tag, val |-> val, byte |-> -1]

\* A byte of the image itself.
ImageByte(b) == [tag |-> "", val |-> "", byte |-> b]

\* addExifToImage: the image with the Artist and ImageDescription tags set,
\* or the first failure: of the extractor, of the mapping, of addMetadata,
\* of SetExif, of Write (whose cause is not kept).
addExifToImage(imgBytes, extracted, fault, prompt) ==
    LET failure(e) == [bytes |-> NoBytes, err |-> e]
    IN  IF extracted # Nil
        THEN failure(Wrap("failed to parse image with Exif extractor", extracted))
        ELSE IF fault = "mapping"
        THEN failure(Wrap("failed to create new exif mapping", ErrLibrary))
        ELSE IF addMetadata(fault) # Nil
        THEN failure(Wrap("failed to build new Exif metadata", addMetadata(fault)))
        ELSE IF fault = "set"
        THEN failure(Wrap("failed to set new Exif on image", ErrLibrary))
        ELSE IF fault = "write"
        THEN failure(ErrorsNew("failed to write image back to buffer"))
        ELSE [bytes |-> <<ExifTag("Artist", "Stable Diffusion"),
                          ExifTag("ImageDescription", prompt)>>
                        \o [i \in 1..Len(imgBytes) |-> ImageByte(imgBytes[i])],
              err |-> Nil]

\* AddToPNG: addExifToImage with its extractor, the parser of the format
\* and then the type of what it returns.
AddToPNG(imgBytes, fault, prompt) ==
    LET extracted ==
            IF fault = "parse" THEN ErrLibrary
            ELSE IF fault = "type"
            THEN ErrorsNew("failed to convert parsed png to ChunkSlice: unexpected type %T")
            ELSE Nil
    IN  addExifToImage(imgBytes, extracted, fault, prompt)

\* AddToJPEG: the same with the extractor of JPEG.
AddToJPEG(imgBytes, fault, prompt) ==
    LET extracted ==
            IF fault = "parse" THEN ErrLibrary
            ELSE IF fault = "type"
            THEN ErrorsNew("failed to convert parsed image to SegmentList: unexpected type %T")
            ELSE Nil
    IN  addExifToImage(imgBytes, extracted, fault, prompt)

\* exifAdder(gotImage, prompt), for the adder getExifAdder returned.
exifAdder(format, imgBytes, fault, prompt) ==
    IF format = "jpeg" THEN AddToJPEG(imgBytes, fault, prompt)
    ELSE AddToPNG(imgBytes, fault, prompt)

\* A file with the bytes data at path.
WithFile(files, path, data) ==
    [q \in DOMAIN files \cup {path} |-> IF q = path THEN data ELSE files[q]]

\* os.WriteFile(name, data, 0o644), one system call at a time, f being its
\* descriptor.  First the open, with O_WRONLY, O_CREATE and O_TRUNC: the
\* file is created if it is not there and emptied if it is; a failure of
\* the open is returned at once.  Then the loop of f.Write: a write puts
\* some of the bytes left at the offset of the descriptor, over what is
\* there and past a gap of zero bytes when the file has been cut shorter
\* since; a write that fails writes nothing and ends the loop.  Then
\* f.Close, whose error is returned when no write has failed.  A descriptor
\* whose file has been removed from its path writes to no file of the
\* directory.  An outcome is the files and the descriptor after the call,
\* and whether os.WriteFile has returned: f.err is then what it returns.
os_WriteFile(files, f, name, data) ==
    LET WriteAt(content, chunk) ==
            LET end == f.off + Len(chunk)
                n == IF Len(content) > end THEN Len(content) ELSE end
            IN  [i \in 1..n |->
                   IF i > f.off /\ i <= end THEN chunk[i - f.off]
                   ELSE IF i <= Len(content) THEN content[i]
                   ELSE ImageByte(0)]
    IN  IF f.state = "none"
        THEN {[files |-> WithFile(files, name, NoBytes),
               f |-> [f EXCEPT !.state = "open",
                               !.created = name \notin DOMAIN files],
               returned |-> FALSE],
              [files |-> files,
               f |-> [f EXCEPT !.err =
                        Wrap("open %s", Sentinel("syscall.EACCES", "permission denied"))],
               returned |-> TRUE]}
        ELSE IF f.err = Nil /\ f.off < Len(data)
        THEN {[files |-> IF f.linked
                         THEN [files EXCEPT ![name] =
                                 WriteAt(@, SubSeq(data, f.off + 1, f.off + k))]
                         ELSE files,
               f |-> [f EXCEPT !.off = @ + k],
               returned |-> FALSE] : k \in 1..(Len(data) - f.off)}
             \cup
             {[files |-> files,
               f |-> [f EXCEPT !.err =
                        Wrap("write %s",
                             Sentinel("syscall.ENOSPC", "no space left on device"))],
               returned |-> FALSE]}
        ELSE {[files |-> files,
               f |-> [f EXCEPT !.state = "closed",
                               !.err = IF @ # Nil THEN @ ELSE e],
               returned |-> TRUE] :
                 e \in {Nil, Wrap("close %s",
                                  Sentinel("syscall.EIO", "input/output error"))}}

\* The values time.Now().Unix() may take.
Clock == {1700000000, 1700000001}

\* The commands the gen-3 command is run as.
Commands ==
    [PromptParts : {<<>>, <<"a", "bear">>}, Ratio : {"1:1", "16x9"},
     Model : {"sd3-large"}, OutputFormat : {"png", "jpeg", "webp"},
     NegativePrompt : {""}, Strength : {F32(0)},
     Image : {"", "ref.png", "missing.png"}]
    \cup
    [PromptParts : {<<"a", "bear">>}, Ratio : {"1:1"},
     Model : {"sd3-large"}, OutputFormat : {"png"},
     NegativePrompt : {"blurry"}, Strength : {F32(4)},
     Image : {"ref.png"}]

\* The configurations: the output directory is a relative path, clean or
\* not, or is left empty.
Configs ==
    [APIKey : {"sk-test"}, OutputDirectory : {"out", "./out/", ""},
     PostGenerationCommand : {"", "xdg-open"}]

\* The image another invocation of the command writes.
OtherFile == <<ExifTag("Artist", "another invocation"), ImageByte(66)>>

\* The output directory dir at the start: empty, or holding a file of an
\* earlier run at a path this run may choose.
StartFiles(dir) ==
    {NoFiles, WithFile(NoFiles, filepath_Join(dir, "1700000000.png"), OtherFile)}

InitRun ==
    /\ command \in Commands
    /\ config \in Configs
    /\ fs \in StartFiles(config.OutputDirectory)
    /\ peer = [NoPeer EXCEPT !.pc = "stat"]
    /\ run = [NotRun EXCEPT !.pc = "start"]
    /\ image = NoStream
    /\ cur = 1
    /\ other = NoCall
    /\ options = <<>>
    /\ client = NewClient("", options)
    /\ req = ZeroRequest
    /\ writeToFails = FALSE
    /\ formFailAt = 0
    /\ ratioStr = ""
    /\ pc = "idle"
    /\ Fresh

\* ctx.Logger.Fatal(msg): the message is logged and os.Exit(1) ends the
\* process; deferred calls do not run.
Fatal(r, msg) ==
    [r EXCEPT !.pc = "exited", !.exit = 1,
              !.log = Append(@, [level |-> "fatal", msg |-> msg])]

\* The end of the process: the system releases a stream still open.
Released(img) == IF img.state = "open" THEN [img EXCEPT !.state = "released"] ELSE img

\* fd.Close(), deferred at part_001 82.
Closed(img) ==
    IF img.state = "none" THEN img
    ELSE [img EXCEPT !.state = "closed", !.closes = @ + 1]

\* part_001 42-91: the prompt, the request, the image file, the client and
\* the buffer, up to the call of Generate3.
Run_prepare ==
    /\ run.pc = "start"
    /\ LET prompt == strings_Join(command.PromptParts, " ")
           ratio == IF command.Ratio # "" THEN ParseAspectRatio(command.Ratio)
                    ELSE ParseResult(FALSE, AR(0, 0), Nil)
           opens == command.Image \in DOMAIN InputFiles
           request ==
               [ZeroRequest EXCEPT
                  !.Prompt = Str(prompt),
                  !.AspectRatio = ratio.value,
                  !.Model = IF command.Model # "" THEN command.Model ELSE @,
                  !.OutputFormat =
                      IF command.OutputFormat # "" THEN command.OutputFormat ELSE @,
                  !.NegativePrompt =
                      IF command.NegativePrompt # "" THEN Str(command.NegativePrompt) ELSE @,
                  !.Strength =
                      IF F32_Ne(command.Strength, F32(0)) THEN command.Strength ELSE @,
                  !.Image =
                      IF command.Image # "" /\ opens
                      THEN Reader(InputFiles[command.Image]) ELSE @]
           halt == IF prompt = "" THEN "prompt is empty, exiting"
                   ELSE IF ratio.err # Nil THEN "aspect ratio is invalid"
                   ELSE IF command.Image # "" /\ ~opens THEN "failed to open image"
                   ELSE ""
       IN  IF halt # ""
           THEN /\ run' = Fatal(run, halt)
                /\ UNCHANGED <<req, image, client, pc>>
           ELSE /\ run' = [run EXCEPT !.pc = "generate", !.prompt = Str(prompt)]
                /\ req' = request
                /\ image' = StreamOf(request.Image)
                /\ client' = NewClient(config.APIKey, options)
                /\ pc' = "validate"
    /\ UNCHANGED <<command, config, fs, peer, schedVars, options, writeToFails,
                   formFailAt, ratioStr, parsed, err, formBuf, formCalls,
                   httpReq, sent, resp, doErr, bodyClosed, bodyRead, sink>>

\* part_001 91-94: Generate3 has returned, or faulted.  A fault unwinds Run,
\* running the deferred Close, and ends the process with status 2.
Run_generated ==
    /\ run.pc = "generate"
    /\ pc \in {"done", "panic"}
    /\ IF pc = "panic"
       THEN /\ run' = [run EXCEPT !.pc = "exited", !.exit = 2]
            /\ image' = Closed(image)
       ELSE IF err # Nil
       THEN /\ run' = Fatal(run, "failed to generate image")
            /\ image' = Released(image)
       ELSE /\ run' = [run EXCEPT !.pc = "exif"]
            /\ UNCHANGED image
    /\ UNCHANGED <<command, config, fs, peer, schedVars, options, client, req,
                   writeToFails, formFailAt, ratioStr, parsed, pc, err,
                   formBuf, formCalls, httpReq, sent, resp, doErr, bodyClosed, bodyRead,
                   sink>>

\* part_001 96-106: the Exif adder of the format, and the tagging of the
\* bytes Generate3 wrote to the buffer.
Run_exif ==
    /\ run.pc = "exif"
    /\ \E fault \in {"none", "parse", "type", "mapping", "ifd0", "artist",
                    "description", "set", "write"} :
       LET lookup == getExifAdder(command.OutputFormat)
           tagged == exifAdder(command.OutputFormat, sink, fault, run.prompt.text)
       IN  IF lookup # Nil
           THEN /\ run' = Fatal(run, "failed to find Exif adder")
                /\ image' = Released(image)
           ELSE IF tagged.err # Nil
           THEN /\ run' = Fatal(run, "failed to add new exif metadata")
                /\ image' = Released(image)
           ELSE /\ run' = [run EXCEPT !.pc = "stat", !.imageWithNewExif = tagged.bytes]
                /\ UNCHANGED image
    /\ UNCHANGED <<command, config, fs, peer, schedVars, options, client, req,
                   writeToFails, formFailAt, ratioStr, parsed, pc, err,
                   formBuf, formCalls, httpReq, sent, resp, doErr, bodyClosed, bodyRead,
                   sink>>

\* part_001 108-113: the output path from the clock, and os.Stat on it.  A
\* file that is there is found, unless os.Stat fails for a reason of its
\* own; the command halts when os.Stat returns no error, and goes on
\* otherwise, whatever the error.
Run_stat ==
    /\ run.pc = "stat"
    /\ \E t \in Clock, failed \in BOOLEAN :
       LET outputFile ==
               filepath_Join(config.OutputDirectory,
                             Itoa(t) \o "." \o command.OutputFormat)
           statErr ==
               IF failed
               THEN Wrap("stat %s", Sentinel("syscall.EIO", "input/output error"))
               ELSE IF outputFile \in DOMAIN fs THEN Nil
               ELSE Wrap("stat %s",
                         Sentinel("fs.ErrNotExist", "no such file or directory"))
       IN  IF statErr = Nil
           THEN /\ run' = [Fatal(run, "output file already exists")
                              EXCEPT !.outputFile = outputFile, !.now = t]
                /\ image' = Released(image)
           ELSE /\ run' = [run EXCEPT !.pc = "write", !.outputFile = outputFile,
                                      !.now = t, !.statErr = statErr]
                /\ UNCHANGED image
    /\ UNCHANGED <<command, config, fs, peer, schedVars, options, client, req,
                   writeToFails, formFailAt, ratioStr, parsed, pc, err,
                   formBuf, formCalls, httpReq, sent, resp, doErr, bodyClosed, bodyRead,
                   sink>>

\* part_001 115-118: one system call of os.WriteFile; once it has returned,
\* its error halts the command.
Run_write ==
    /\ run.pc = "write"
    /\ \E w \in os_WriteFile(fs, run.fd, run.outputFile, run.imageWithNewExif) :
         /\ fs' = w.files
         /\ IF ~w.returned
            THEN /\ run' = [run EXCEPT !.fd = w.f]
                 /\ UNCHANGED image
            ELSE IF w.f.err # Nil
            THEN /\ run' = Fatal([run EXCEPT !.fd = w.f],
                                 "failed while writing to output file")
                 /\ image' = Released(image)
            ELSE /\ run' = [run EXCEPT !.pc = "post", !.fd = w.f]
                 /\ UNCHANGED image
    /\ UNCHANGED <<command, config, peer, schedVars, options, client, req,
                   writeToFails, formFailAt, ratioStr, parsed, pc, err,
                   formBuf, formCalls, httpReq, sent, resp, doErr, bodyClosed, bodyRead,
                   sink>>

\* An entry of run.posts: the command started, its arguments, and how it
\* went ("running" while Run waits for it).
Post(outcome) ==
    [name |-> config.PostGenerationCommand, args |-> <<run.outputFile>>,
     outcome |-> outcome]

\* The error of the post-generation command given to Logger.Error.
LoggedPostFailure(r) ==
    [r EXCEPT !.log = Append(@, [level |-> "error",
                                 msg |-> "post-generation command failed"])]

\* part_001 120-122, up to the start of the process inside cmd.Run(): with
\* no command configured Run returns nil (130) and the deferred Close runs;
\* a command that cannot be started is a failure of cmd.Run() at once
\* (123-130); a command that starts leaves Run waiting for it.
Run_post ==
    /\ run.pc = "post"
    /\ IF config.PostGenerationCommand = ""
       THEN /\ run' = [run EXCEPT !.pc = "returned", !.exit = 0]
            /\ image' = Closed(image)
       ELSE \E starts \in BOOLEAN :
              IF starts
              THEN /\ run' = [run EXCEPT !.pc = "postWait",
                                         !.posts = Append(@, Post("running"))]
                   /\ UNCHANGED image
              ELSE /\ run' = [LoggedPostFailure(run) EXCEPT
                                 !.pc = "returned", !.exit = 0,
                                 !.posts = Append(@, Post("failed"))]
                   /\ image' = Closed(image)
    /\ UNCHANGED <<command, config, fs, peer, schedVars, options, client, req,
                   writeToFails, formFailAt, ratioStr, parsed, pc, err,
                   formBuf, formCalls, httpReq, sent, resp, doErr, bodyClosed,
                   bodyRead, sink>>

\* The post-generation command, running, changes or removes the file whose
\* path it was given (what the configured program does is its own).  A
\* descriptor another invocation holds on a file that is removed stays
\* open, on a file that is at no path.
Post_changesFile ==
    /\ run.pc = "postWait"
    /\ run.outputFile \in DOMAIN fs
    /\ \/ /\ fs' = [q \in DOMAIN fs \ {run.outputFile} |-> fs[q]]
          /\ peer' = IF peer.path = run.outputFile /\ peer.fd.state = "open"
                     THEN [peer EXCEPT !.fd.linked = FALSE]
                     ELSE peer
       \/ /\ \A i \in 1..Len(fs[run.outputFile]) :
                fs[run.outputFile][i].tag # "Software"
          /\ fs' = [fs EXCEPT ![run.outputFile] =
                        Append(@, ExifTag("Software", config.PostGenerationCommand))]
          /\ UNCHANGED peer
    /\ UNCHANGED <<command, config, run, schedVars, image, options,
                   client, req, writeToFails, formFailAt, ratioStr, parsed,
                   pc, err, formBuf, formCalls, httpReq, sent, resp, doErr,
                   bodyClosed, bodyRead, sink>>

\* The command halting when the post-generation command fails.
Run_postReturns_Halts ==
    /\ run.pc = "postWait"
    /\ \E failed \in BOOLEAN :
         IF failed
         THEN /\ run' = Fatal([run EXCEPT !.posts[1].outcome = "failed"],
                              "post-generation command failed")
              /\ image' = Released(image)
         ELSE /\ run' = [run EXCEPT !.pc = "returned", !.exit = 0,
                                    !.posts[1].outcome = "ok"]
              /\ image' = Closed(image)
    /\ UNCHANGED <<command, config, fs, peer, schedVars, options, client, req,
                   writeToFails, formFailAt, ratioStr, parsed, pc, err,
                   formBuf, formCalls, httpReq, sent, resp, doErr, bodyClosed,
                   bodyRead, sink>>

\* part_001 122-130, and the deferred Close of 82: the process has ended and
\* cmd.Run() returns; a failure is logged; Run returns nil.
Run_postReturns ==
    /\ run.pc = "postWait"
    /\ \E failed \in BOOLEAN :
         run' = IF failed
                THEN [LoggedPostFailure(run) EXCEPT
                         !.pc = "returned", !.exit = 0,
                         !.posts[1].outcome = "failed"]
                ELSE [run EXCEPT !.pc = "returned", !.exit = 0,
                                 !.posts[1].outcome = "ok"]
    /\ image' = Closed(image)
    /\ UNCHANGED <<command, config, fs, peer, schedVars, options, client, req,
                   writeToFails, formFailAt, ratioStr, parsed, pc, err,
                   formBuf, formCalls, httpReq, sent, resp, doErr, bodyClosed,
                   bodyRead, sink>>

\* Another invocation of the command, in a process of its own, at part_001
\* 108-113: its output path from the clock and its format (png or jpeg: with
\* another format it halts at 96-99), and os.Stat on it.
Other_stat ==
    /\ peer.pc = "stat"
    /\ \E t \in Clock, f \in {"png", "jpeg"}, failed \in BOOLEAN :
       LET path == filepath_Join(config.OutputDirectory, Itoa(t) \o "." \o f)
       IN  peer' = [peer EXCEPT
                      !.pc = IF path \in DOMAIN fs /\ ~failed
                             THEN "exited" ELSE "write",
                      !.path = path]
    /\ UNCHANGED <<command, config, run, fs, schedVars, image, options, client,
                   req, writeToFails, formFailAt, ratioStr, parsed, pc, err,
                   formBuf, formCalls, httpReq, sent, resp, doErr, bodyClosed,
                   bodyRead, sink>>

\* The other invocation at part_001 115-118: one system call of its
\* os.WriteFile on the path it tested, whatever has come to be there since.
Other_write ==
    /\ peer.pc = "write"
    /\ \E w \in os_WriteFile(fs, peer.fd, peer.path, OtherFile) :
         /\ fs' = w.files
         /\ peer' = [peer EXCEPT
                       !.fd = w.f,
                       !.pc = IF ~w.returned THEN "write"
                              ELSE IF w.f.err # Nil THEN "exited"
                              ELSE "returned"]
    /\ UNCHANGED <<command, config, run, schedVars, image, options, client,
                   req, writeToFails, formFailAt, ratioStr, parsed, pc, err,
                   formBuf, formCalls, httpReq, sent, resp, doErr, bodyClosed,
                   bodyRead, sink>>

NextRun ==
    \/ Run_prepare
    \/ NextGenerate3
    \/ Run_generated
    \/ Run_exif
    \/ Run_stat
    \/ Run_write
    \/ Run_post
    \/ Post_changesFile
    \/ Run_postReturns
    \/ Other_stat
    \/ Other_write

SpecRun == InitRun /\ [][NextRun]_vars

----------------------------------------------------------------------------
(* Two calls on one Client, interleaved: a call of Generate3 and a second   *)
(* call, of Generate3 or of GenerateUltra.  The arguments and               *)
(* the locals of a call (generateRequest, writeTo, formBuf, formWriter,     *)
(* req, resp, err) are its own; the Client and the HTTP handle behind it    *)
(* are shared.  One call runs at a time, step by step, and the scheduler    *)
(* may switch to the other call between any two steps.                      *)

\* The arguments and locals of the call that is running.
Locals ==
    [req |-> req, writeToFails |-> writeToFails, pc |-> pc, err |-> err,
     formBuf |-> formBuf, formCalls |-> formCalls, httpReq |-> httpReq,
     resp |-> resp, doErr |-> doErr, bodyClosed |-> bodyClosed,
     bodyRead |-> bodyRead, sink |-> sink,
     image |-> image]

\* The request call k is made with.
ConcurrentRequest(k) ==
    IF k = 1
    THEN [ScenarioA EXCEPT !.Image = Reader(Str("IMG"))]
    ELSE [ScenarioA EXCEPT !.Prompt = Str("a cat on a bicycle"),
                           !.AspectRatio = AR(16, 9),
                           !.Image = Reader(Str("REF"))]

\* The request of a call of GenerateUltra made while call 1 runs.
ConcurrentUltraRequest ==
    [Prompt |-> Str("a dog in a canoe"), NegativePrompt |-> EmptyStr,
     AspectRatio |-> AR(1, 1), OutputFormat |-> "png"]

\* A request of Generate3 (a request of GenerateUltra names no model).
IsGenerate3Request(g) == "Model" \in DOMAIN g

\* A call at its entry.
Entered(g, fails) ==
    [req |-> g, writeToFails |-> fails,
     pc |-> IF IsGenerate3Request(g) THEN "validate" ELSE "ultraValidate",
     err |-> Nil,
     formBuf |-> NewWriter(0, ""), formCalls |-> 0, httpReq |-> NoRequest,
     resp |-> NoResponse, doErr |-> Nil, bodyClosed |-> 0,
     bodyRead |-> NoBody, sink |-> <<>>,
     image |-> IF IsGenerate3Request(g) THEN StreamOf(g.Image) ELSE NoStream]

InitConcurrent ==
    /\ options = <<>>
    /\ client = NewClient("sk-test", options)
    /\ req = ConcurrentRequest(1)
    /\ writeToFails = FALSE
    /\ formFailAt = 0
    /\ ratioStr = ""
    /\ pc = "validate"
    /\ Fresh
    /\ image = StreamOf(req.Image)
    /\ command = NoCommand
    /\ config = NoConfig
    /\ run = NotRun
    /\ fs = NoFiles
    /\ peer = NoPeer
    /\ cur = 1
    /\ other \in {Entered(ConcurrentRequest(2), FALSE),
                  Entered(ConcurrentUltraRequest, FALSE)}

\* A form buffer kept in one place for both calls (a field of the Client,
\* say) instead of a local of each call.
Switch_SharedFormBuf ==
    /\ other.pc \notin {"none", "done", "panic"}
    /\ other' = Locals
    /\ cur' = 3 - cur
    /\ req' = other.req
    /\ writeToFails' = other.writeToFails
    /\ pc' = other.pc
    /\ err' = other.err
    /\ formCalls' = other.formCalls
    /\ httpReq' = other.httpReq
    /\ resp' = other.resp
    /\ doErr' = other.doErr
    /\ bodyClosed' = other.bodyClosed
    /\ bodyRead' = other.bodyRead
    /\ sink' = other.sink
    /\ image' = other.image
    /\ UNCHANGED <<cmdVars, options, client, formFailAt, ratioStr, parsed,
                   sent, formBuf>>

\* The scheduler switches to the other call, which goes on with its own
\* arguments and locals.  What the calls share stays as it is: the Client
\* and the requests the HTTP handle has been given.
Switch ==
    /\ other.pc \notin {"none", "done", "panic"}
    /\ other' = Locals
    /\ cur' = 3 - cur
    /\ req' = other.req
    /\ writeToFails' = other.writeToFails
    /\ pc' = other.pc
    /\ err' = other.err
    /\ formBuf' = other.formBuf
    /\ formCalls' = other.formCalls
    /\ httpReq' = other.httpReq
    /\ resp' = other.resp
    /\ doErr' = other.doErr
    /\ bodyClosed' = other.bodyClosed
    /\ bodyRead' = other.bodyRead
    /\ sink' = other.sink
    /\ image' = other.image
    /\ UNCHANGED <<cmdVars, options, client, formFailAt, ratioStr, parsed,
                   sent>>

NextConcurrent ==
    \/ Next
    \/ Switch

SpecConcurrent == InitConcurrent /\ [][NextConcurrent]_vars

----------------------------------------------------------------------------
(* Vocabulary of the properties *)

InAllowList(a) == \E i \in 1..Len(validAspectRatios) : validAspectRatios[i] = a

KnownModel(m) == m \in {"sd3-medium", "sd3-large", "sd3-large-turbo"}

\* A prompt of 1 to 10,000 bytes.
PromptInRange(p) == 1 <= StrLen(p) /\ StrLen(p) <= 10000

\* A strength in [0.0, 1.0].
StrengthInRange(x) == x.class = "finite" /\ 0 <= x.n /\ x.n <= StrengthDenom

\* The call has returned.
Returned == pc = "done"

\* The validation step of the call is over.
Validated == pc # "validate"

\* The failure Generate3 returns for a validation failure of kind e.
Invalid(e) == Wrap("Generate3Request is invalid", e)

\* e is one of the aspect-ratio failures of the package.
IsAspectRatioFailure(e) ==
    \E m \in {"invalid aspect ratio: %q", "aspect ratio is not supported: %s",
              "aspect ratio width is less than 0: %d",
              "aspect ratio height is less than 0: %d"} :
        \E i \in 1..Len(e.ctx) : e.ctx[i] = m

\* The form fields of a multipart body, in order: the name of each part
\* header and the value written after it (empty when none was).
RECURSIVE FieldsFrom(_, _)
FieldsFrom(out, i) ==
    IF i > Len(out) THEN <<>>
    ELSE IF out[i].kind = "header"
    THEN <<[name |-> out[i].name,
            val |-> IF i < Len(out) /\ out[i + 1].kind = "data"
                    THEN out[i + 1].val ELSE EmptyStr]>> \o FieldsFrom(out, i + 1)
    ELSE FieldsFrom(out, i + 1)

Fields(out) == FieldsFrom(out, 1)

FieldNames(out) == [i \in 1..Len(Fields(out)) |-> Fields(out)[i].name]

Field(name, val) == [name |-> name, val |-> val]

\* The place of a field name in the order of the specification (0: none).
FieldRank(name) ==
    CASE name = "aspect_ratio"    -> 1
      [] name = "prompt"          -> 2
      [] name = "model"           -> 3
      [] name = "output_format"   -> 4
      [] name = "negative_prompt" -> 5
      [] name = "strength"        -> 6
      [] name = "image"           -> 7
      [] OTHER                    -> 0

\* The field of that name is in the body.
HasField(out, name) ==
    \E i \in 1..Len(Fields(out)) : Fields(out)[i].name = name

\* The value of the field of that name.
FieldValue(out, name) ==
    (CHOOSE f \in {Fields(out)[i] : i \in 1..Len(Fields(out))} : f.name = name).val

IsDigit(c) == \E d \in 0..9 : DigitStr[d + 1] = c

DigitVal(c) == CHOOSE d \in 0..9 : DigitStr[d + 1] = c

AllDigits(t) == Len(t) >= 1 /\ \A i \in 1..Len(t) : IsDigit(CharAt(t, i))

\* The number a string of digits denotes.
RECURSIVE DigitsVal(_)
DigitsVal(t) ==
    IF Len(t) = 0 THEN 0
    ELSE 10 * DigitsVal(SubSeq(t, 1, Len(t) - 1)) + DigitVal(CharAt(t, Len(t)))

\* t is a fixed-point decimal with exactly two digits after the point:
\* an optional sign, digits, a point, two digits.
IsFixedPoint2(t) ==
    /\ Len(t) >= 4
    /\ CharAt(t, Len(t) - 2) = "."
    /\ AllDigits(SubSeq(t, Len(t) - 1, Len(t)))
    /\ LET ip == SubSeq(t, 1, Len(t) - 3)
       IN  AllDigits(IF CharAt(ip, 1) = "-" THEN SubSeq(ip, 2, Len(ip)) ELSE ip)

\* The hundredths a fixed-point decimal of two digits denotes, signed.
HundredthsOf(t) ==
    IF CharAt(t, 1) = "-"
    THEN -(100 * DigitsVal(SubSeq(t, 2, Len(t) - 3))
              + DigitsVal(SubSeq(t, Len(t) - 1, Len(t))))
    ELSE 100 * DigitsVal(SubSeq(t, 1, Len(t) - 3))
             + DigitsVal(SubSeq(t, Len(t) - 1, Len(t)))

\* h hundredths are the strength s rounded to two digits: they differ from
\* s by half a hundredth at most.
IsRounded(h, s) ==
    /\ s.class = "finite"
    /\ h * StrengthDenom - s.n * 100 <= StrengthDenom \div 2
    /\ s.n * 100 - h * StrengthDenom <= StrengthDenom \div 2

\* The text "<width>:<height>" of the allow-listed ratios.
RatioText(a) ==
    CASE a = AR(1, 1)  -> "1:1"
      [] a = AR(16, 9) -> "16:9"
      [] a = AR(21, 9) -> "21:9"
      [] a = AR(2, 3)  -> "2:3"
      [] a = AR(3, 2)  -> "3:2"
      [] a = AR(4, 5)  -> "4:5"
      [] a = AR(5, 4)  -> "5:4"
      [] a = AR(9, 16) -> "9:16"
      [] a = AR(9, 21) -> "9:21"

\* The places of the colons of a string.
Colons(t) == {i \in 1..Len(t) : CharAt(t, i) = ":"}

\* t is the decimal text of an integer: an optional sign, then digits.
IsInteger(t) ==
    /\ Len(t) >= 1
    /\ AllDigits(IF CharAt(t, 1) \in {"-", "+"} THEN SubSeq(t, 2, Len(t)) ELSE t)

\* t is not two integers with one colon between them.
Malformed(t) ==
    \/ Cardinality(Colons(t)) # 1
    \/ LET i == CHOOSE k \in Colons(t) : TRUE
       IN  \/ ~IsInteger(SubSeq(t, 1, i - 1))
           \/ ~IsInteger(SubSeq(t, i + 1, Len(t)))

----------------------------------------------------------------------------
(* Properties *)

\* C1: when Generate3Request.validate rejects the request, Generate3 returns
\* the validation error, toFormData is never called, nothing is written to
\* the form buffer and no request reaches the HTTP client.
C1_RejectedBeforeSerializeAndSend ==
    Generate3Request_validate(req) # Nil =>
        /\ formCalls = 0
        /\ formBuf.n = 0
        /\ httpReq = NoRequest
        /\ sent = <<>>
        /\ pc \in {"validate", "done"}
        /\ (Returned => err = Invalid(Generate3Request_validate(req)))

C1_Witness ==
    /\ Returned
    /\ Generate3Request_validate(req) # Nil
    /\ err = Invalid(Generate3Request_validate(req))
    /\ req.Image # NilReader

\* C2: a request that is well-formed in its other fields (a prompt of 1 to
\* 10,000 bytes, a known model) and whose aspect ratio is not in the
\* allow-list (3:5, say) fails validation with an aspect-ratio failure.
C2_OffListRatioRejected ==
    ( /\ Validated
      /\ PromptInRange(req.Prompt)
      /\ StrLen(req.NegativePrompt) <= 10000
      /\ KnownModel(req.Model)
      /\ StrengthInRange(req.Strength)
      /\ ~InAllowList(req.AspectRatio) ) =>
        /\ Returned
        /\ IsAspectRatioFailure(err)
        /\ sent = <<>>

\* C3: a request with a prompt of 1 to 10,000 bytes, a negative prompt of at
\* most 10,000 bytes, a known model and an allow-listed aspect ratio passes
\* validation, whatever its output format, strength and image: validate
\* returns nil and Generate3 goes on to serialize it.
C3_WellFormedAccepted ==
    ( /\ PromptInRange(req.Prompt)
      /\ StrLen(req.NegativePrompt) <= 10000
      /\ KnownModel(req.Model)
      /\ InAllowList(req.AspectRatio) ) =>
        /\ Generate3Request_validate(req) = Nil
        /\ (pc = "toFormData" => err = Nil /\ formCalls = 0)
        /\ (Validated /\ pc # "toFormData" => formCalls = 1)

C3_Witness ==
    /\ StrLen(req.Prompt) = 10000
    /\ req.NegativePrompt = EmptyStr
    /\ KnownModel(req.Model)
    /\ InAllowList(req.AspectRatio)
    /\ req.Strength = F32(12)
    /\ pc = "close"
    /\ formCalls = 1

\* C4 as stated: a request whose prompt or negative prompt is longer than
\* 10,000 bytes fails validation with ErrPromptTooLong, whatever its other
\* fields.
C4_Original ==
    ( /\ Validated
      /\ \/ StrLen(req.Prompt) > 10000
         \/ StrLen(req.NegativePrompt) > 10000 ) =>
        /\ Returned
        /\ ErrorsIs(err, "ErrPromptTooLong")

\* C4, amended: a request whose prompt is longer than 10,000 bytes, or whose
\* prompt is not empty and whose negative prompt is longer than 10,000
\* bytes, fails validation with ErrPromptTooLong, whatever its other fields;
\* with an empty prompt the failure is the empty-prompt one.
C4_TooLongRejected ==
    /\ ( /\ Validated
         /\ \/ StrLen(req.Prompt) > 10000
            \/ req.Prompt # EmptyStr /\ StrLen(req.NegativePrompt) > 10000 ) =>
           /\ Returned
           /\ ErrorsIs(err, "ErrPromptTooLong")
           /\ err.is = {"ErrPromptTooLong"}
           /\ sent = <<>>
    /\ ( /\ Validated
         /\ req.Prompt = EmptyStr ) =>
           /\ Returned
           /\ err = Invalid(ErrorsNew("prompt cannot be empty"))

C4_Witness ==
    /\ Returned
    /\ StrLen(req.Prompt) = 24
    /\ StrLen(req.NegativePrompt) = 10001
    /\ req.Model = "sd3"
    /\ req.AspectRatio = AR(0, 9)
    /\ ErrorsIs(err, "ErrPromptTooLong")

\* The rule of the specification's list the request violates first:
\* (1) prompt non-empty, (2) prompt length, (3) negative prompt length,
\* (4) known model, (5) ratio components positive, (6) ratio allow-listed.
FirstViolatedRule(g) ==
    IF g.Prompt = EmptyStr THEN "prompt-empty"
    ELSE IF StrLen(g.Prompt) > 10000 THEN "prompt-length"
    ELSE IF StrLen(g.NegativePrompt) > 10000 THEN "negative-prompt-length"
    ELSE IF ~KnownModel(g.Model) THEN "unknown-model"
    ELSE IF g.AspectRatio.Width <= 0 \/ g.AspectRatio.Height <= 0 THEN "ratio-not-positive"
    ELSE IF ~InAllowList(g.AspectRatio) THEN "ratio-not-allowed"
    ELSE "none"

HasMsg(e, m) == \E i \in 1..Len(e.ctx) : e.ctx[i] = m

\* The rule a failure of Generate3 reports.
RuleOf(e) ==
    IF e = Nil THEN "none"
    ELSE IF HasMsg(e, "prompt cannot be empty") THEN "prompt-empty"
    ELSE IF ErrorsIs(e, "ErrPromptTooLong") /\ HasMsg(e, "prompt is invalid")
    THEN "prompt-length"
    ELSE IF ErrorsIs(e, "ErrPromptTooLong") /\ HasMsg(e, "negative prompt is invalid")
    THEN "negative-prompt-length"
    ELSE IF ErrorsIs(e, "ErrUnknownModel") THEN "unknown-model"
    ELSE IF \/ HasMsg(e, "invalid aspect ratio: %q")
            \/ HasMsg(e, "aspect ratio width is less than 0: %d")
            \/ HasMsg(e, "aspect ratio height is less than 0: %d")
    THEN "ratio-not-positive"
    ELSE IF HasMsg(e, "aspect ratio is not supported: %s") THEN "ratio-not-allowed"
    ELSE "other"

\* C5: validation fails fast with the failure of the first violated rule in
\* the order prompt non-empty, prompt length, negative prompt length, known
\* model, ratio components positive, ratio allow-listed; so a request that
\* violates both the model rule and a ratio rule fails as an unknown model.
C5_FirstViolatedRuleInOrder ==
    Validated =>
        IF FirstViolatedRule(req) = "none"
        THEN Generate3Request_validate(req) = Nil
        ELSE /\ Returned
             /\ RuleOf(err) = FirstViolatedRule(req)

\* C6: a request with a prompt of 1 to 10,000 bytes, a negative prompt of at
\* most 10,000 bytes and an allow-listed ratio whose model is none of the
\* three known ones (the empty name included) fails validation with
\* ErrUnknownModel, and Generate3 returns before serializing or sending.
C6_UnknownModelRejected ==
    ( /\ Validated
      /\ PromptInRange(req.Prompt)
      /\ StrLen(req.NegativePrompt) <= 10000
      /\ InAllowList(req.AspectRatio)
      /\ ~KnownModel(req.Model) ) =>
        /\ Returned
        /\ ErrorsIs(err, "ErrUnknownModel")
        /\ err = Invalid(Wrap("%s", ErrUnknownModel))
        /\ formCalls = 0
        /\ sent = <<>>

C6_Witness ==
    /\ Returned
    /\ PromptInRange(req.Prompt)
    /\ InAllowList(req.AspectRatio)
    /\ req.Model = ""
    /\ ErrorsIs(err, "ErrUnknownModel")

\* C7: a request whose strength is negative or greater than 1 fails
\* validation, and Generate3 sends no such request.  Stated for the requests
\* whose other fields are well-formed, where nothing else can reject them.
C7_StrengthOutOfRangeRejected ==
    ( /\ PromptInRange(req.Prompt)
      /\ StrLen(req.NegativePrompt) <= 10000
      /\ KnownModel(req.Model)
      /\ InAllowList(req.AspectRatio)
      /\ ~StrengthInRange(req.Strength) ) =>
        /\ sent = <<>>
        /\ (Returned => HasMsg(err, "Generate3Request is invalid"))

\* C8: a request whose aspect ratio has a width or height that is zero or
\* negative is rejected by validation.  Stated for the requests whose other
\* fields are well-formed, where nothing else can reject them.
C8_NonPositiveRatioRejected ==
    ( /\ Validated
      /\ PromptInRange(req.Prompt)
      /\ StrLen(req.NegativePrompt) <= 10000
      /\ KnownModel(req.Model)
      /\ StrengthInRange(req.Strength)
      /\ \/ req.AspectRatio.Width <= 0
         \/ req.AspectRatio.Height <= 0 ) =>
        /\ Returned
        /\ err # Nil
        /\ sent = <<>>

\* C9: a call of Generate3 hands at most one request to the HTTP client:
\* exactly one when it returns success, none when validation fails.
C9_AtMostOneRequest ==
    /\ Len(sent) <= 1
    /\ (Returned /\ err = Nil => Len(sent) = 1)
    /\ (Returned /\ Len(sent) = 1 => sent[1] = httpReq /\ httpReq # NoRequest)
    /\ (Generate3Request_validate(req) # Nil => Len(sent) = 0)

C9_Witness ==
    /\ Returned
    /\ err = Nil
    /\ Len(sent) = 1
    /\ resp.status = 200
    /\ sink = resp.body
    /\ Len(sink) = 2

\* C10: when the service answers with a status other than 200, Generate3
\* returns a failure that carries that status code and the whole response
\* body; it never returns success then.
C10_UnexpectedStatusFailure ==
    (Returned /\ resp # NoResponse /\ resp.status # 200) =>
        /\ err # Nil
        /\ err.status = resp.status
        /\ err.body = resp.body
        /\ HasMsg(err, "got unexpected status code %d while generating image. Response: %s")

C10_Witness ==
    /\ Returned
    /\ resp = [status |-> 403, body |-> <<65, 66>>]
    /\ err.status = 403
    /\ err.body = <<65, 66>>

\* C11: when the service answers 200 with the body X, the body is read to
\* its end and writeTo accepts every write, Generate3 returns nil and the
\* bytes written to writeTo are exactly X, in order, nothing before and
\* nothing after; while the copy goes on writeTo holds the bytes of X read
\* so far.
C11_BodyCopiedToSink ==
    /\ (Returned /\ resp.status = 200 /\ ~writeToFails /\ bodyRead.ends = "EOF") =>
          /\ err = Nil
          /\ sink = resp.body
    /\ (resp.status = 200 /\ ~writeToFails) =>
          sink = SubSeq(resp.body, 1, bodyRead.pos)

C11_Witness ==
    /\ Returned
    /\ ~writeToFails
    /\ bodyRead = [pos |-> 2, ends |-> "EOF"]
    /\ resp = [status |-> 200, body |-> <<66, 65>>]
    /\ err = Nil
    /\ sink = <<66, 65>>

\* C12: serializing a validated request that has no reference image (Image
\* is nil) completes without a fault and gives a body whose last field is an
\* empty image field; for scenario A the body holds exactly aspect_ratio=1:1,
\* the prompt, model=sd3-large, output_format=png and the empty image field.
\* Stated for the requests whose ratio and strength are well-formed too.
C12_NoImageSerialized ==
    ( /\ formCalls = 1
      /\ req.Image = NilReader
      /\ InAllowList(req.AspectRatio)
      /\ StrengthInRange(req.Strength) ) =>
        /\ pc # "panic"
        /\ Fields(formBuf.out)[Len(Fields(formBuf.out))] = Field("image", EmptyStr)
        /\ (req = ScenarioA =>
               Fields(formBuf.out) =
                   <<Field("aspect_ratio", Str("1:1")),
                     Field("prompt", Str("a bear riding a unicycle")),
                     Field("model", Str("sd3-large")),
                     Field("output_format", Str("png")),
                     Field("image", EmptyStr)>>)

\* C13: toFormData writes its fields in the order aspect_ratio, prompt,
\* model, output_format, negative_prompt, strength, image: no other field is
\* written and none twice; and when no write fails aspect_ratio, prompt and
\* image are written always, model, output_format and negative_prompt
\* exactly when they are not empty.
C13_FieldOrder ==
    LET names == FieldNames(formBuf.out)
    IN  /\ \A i \in 1..Len(names) : FieldRank(names[i]) > 0
        /\ \A i, j \in 1..Len(names) :
               i < j => FieldRank(names[i]) < FieldRank(names[j])
        /\ (formCalls = 1 /\ err = Nil) =>
               /\ HasField(formBuf.out, "aspect_ratio")
               /\ HasField(formBuf.out, "prompt")
               /\ HasField(formBuf.out, "image")
               /\ HasField(formBuf.out, "model") <=> req.Model # ""
               /\ HasField(formBuf.out, "output_format") <=> req.OutputFormat # ""
               /\ HasField(formBuf.out, "negative_prompt") <=>
                      StrLen(req.NegativePrompt) > 0

C13_Witness ==
    /\ pc = "returned"
    /\ err = Nil
    /\ req.Model = ""
    /\ req.OutputFormat = ""
    /\ FieldNames(formBuf.out) =
           <<"aspect_ratio", "prompt", "negative_prompt", "strength", "image">>

\* C14: toFormData omits the strength field exactly when the strength is 0;
\* whenever the field is written, its value is the strength as a fixed-point
\* decimal with exactly two digits after the decimal point.
C14_StrengthField ==
    (formCalls = 1 /\ err = Nil) =>
        /\ HasField(formBuf.out, "strength") <=> req.Strength # F32(0)
        /\ HasField(formBuf.out, "strength") =>
               LET t == FieldValue(formBuf.out, "strength")
               IN  /\ t.pad = 0
                   /\ IsFixedPoint2(t.text)
                   /\ IsRounded(HundredthsOf(t.text), req.Strength)

\* C16: for each of the nine allow-listed ratios a, a.String() is the text
\* "<width>:<height>", and ParseAspectRatio of that text succeeds and
\* returns a ratio equal to a.
C16_StringParseRoundTrip ==
    InAllowList(req.AspectRatio) =>
        /\ (pc \in {"parse", "parsed"} => ratioStr = RatioText(req.AspectRatio))
        /\ (pc = "parsed" =>
               /\ parsed.err = Nil
               /\ ~parsed.isNil
               /\ parsed.value = req.AspectRatio)

C16_Witness ==
    /\ pc = "parsed"
    /\ req.AspectRatio = AR(21, 9)
    /\ ratioStr = "21:9"
    /\ parsed = ParseResult(FALSE, AR(21, 9), Nil)

\* C17: ParseAspectRatio of a string that is not exactly two parts with a
\* colon between them ("16", "1:2:3"), or one of whose parts is not an
\* integer ("a:b"), returns an error and no AspectRatio.
C17_MalformedRatioRejected ==
    (pc \in {"parsed", "parsedRaw"} /\ Malformed(ratioStr)) =>
        /\ parsed.err # Nil
        /\ parsed.isNil
        /\ \/ HasMsg(parsed.err, "invalid number of semi-colons in aspect ratio")
           \/ ErrorsIs(parsed.err, "strconv.ErrSyntax")

C17_Witness ==
    /\ pc = "parsedRaw"
    /\ ratioStr = "1:"
    /\ parsed.isNil
    /\ HasMsg(parsed.err, "height ratio is not an integer")
    /\ ErrorsIs(parsed.err, "strconv.ErrSyntax")

\* The context of the call was cancelled or ran out of time, as e tells.
IsCancellation(e) ==
    ErrorsIs(e, "context.Canceled") \/ ErrorsIs(e, "context.DeadlineExceeded")

\* C18: when httpClient.Do fails because the caller's context was cancelled
\* or timed out, the failure Generate3 returns is of the cancellation kind,
\* told from the other transport faults by errors.Is and not by its text.
\* Stated for the requests whose ratio and strength are well-formed.
C18_CancellationDistinguishable ==
    ( /\ Returned
      /\ doErr # Nil
      /\ InAllowList(req.AspectRatio)
      /\ StrengthInRange(req.Strength) ) =>
        /\ err # Nil
        /\ IsCancellation(err) <=> IsCancellation(doErr)

\* A write of the multipart body has failed: the sink failed the Write it
\* was to fail, or the image source failed its Read.
WriteFailed ==
    /\ formCalls = 1
    /\ \/ formFailAt > 0 /\ formBuf.n >= formFailAt
       \/ req.Image.fails

\* e is a serialization failure of Generate3.
IsSerializationFailure(e) ==
    \/ HasMsg(e, "failed to generate form data for Generate3 request")
    \/ HasMsg(e, "failed to close form writer")

\* C19: when a write fails while the multipart body is built (a field
\* write, creating the image field, copying the image, closing the writer),
\* Generate3 returns a serialization failure that wraps the cause, and no
\* HTTP request is built or sent.
C19_SerializationFailure ==
    WriteFailed =>
        /\ Returned
        /\ IsSerializationFailure(err)
        /\ ErrorsIs(err, "sink write error") \/ ErrorsIs(err, "image read error")
        /\ httpReq = NoRequest
        /\ sent = <<>>

C19_Witness ==
    /\ Returned
    /\ formFailAt = 0
    /\ req.Image = FailingReader(Str("IM"))
    /\ HasMsg(err, "failed to generate form data for Generate3 request")
    /\ HasMsg(err, "failed to copy image to form fields for request")
    /\ ErrorsIs(err, "image read error")
    /\ sent = <<>>

\* C20: every request Generate3 hands to the HTTP client is a POST to
\* <baseURL>/v2beta/stable-image/generate/sd3 with Authorization "Bearer
\* <api key>", Accept "image/*" and the multipart Content-Type of the
\* boundary of the writer that wrote its body; the base URL is
\* https://api.stability.ai unless an option of NewClient set another.
C20_RequestShape ==
    \A i \in 1..Len(sent) :
        /\ sent[i].method = "POST"
        /\ sent[i].url = client.baseURL \o "/v2beta/stable-image/generate/sd3"
        /\ options = <<>> =>
               sent[i].url = "https://api.stability.ai/v2beta/stable-image/generate/sd3"
        /\ options # <<>> =>
               sent[i].url = options[Len(options)].value
                                 \o "/v2beta/stable-image/generate/sd3"
        /\ sent[i].authorization = "Bearer sk-test"
        /\ sent[i].accept = "image/*"
        /\ formBuf.boundary \in Boundaries
        /\ sent[i].body = formBuf.out
        /\ sent[i].contentType = "multipart/form-data; boundary=" \o formBuf.boundary

C20_Witness ==
    /\ Returned
    /\ err = Nil
    /\ Len(sent) = 1
    /\ sent[1].method = "POST"
    /\ sent[1].url = "http://127.0.0.1:8080/v2beta/stable-image/generate/sd3"
    /\ sent[1].contentType = "multipart/form-data; boundary=9c1d"

\* The failure Generate3 returned, by the step that made it.
FailureKind ==
    IF err = Nil THEN "none"
    ELSE CASE HasMsg(err, "Generate3Request is invalid") -> "validation"
           [] HasMsg(err, "failed to generate form data for Generate3 request") -> "serialization"
           [] HasMsg(err, "failed to close form writer") -> "serialization"
           [] HasMsg(err, "failed to create request") -> "construction"
           [] HasMsg(err, "failed to send request") -> "transport"
           [] HasMsg(err, "failed to copy image to writer") -> "copy"
           [] OTHER -> "status"

\* C26: no byte is written to writeTo before a 200 status has been seen:
\* whenever writeTo holds a byte the response in hand has status 200, and
\* when Generate3 has returned a validation, serialization,
\* request-construction, transport or unexpected-status failure, writeTo
\* holds what it held before the call.
C26_SinkUntouchedBefore200 ==
    /\ (sink # <<>>) => (resp.status = 200 /\ pc \in {"response", "return", "done"})
    /\ ( /\ Returned
         /\ FailureKind \in {"validation", "serialization", "construction",
                              "transport", "status"} ) => sink = <<>>

\* A 403 answer with a body, to a call whose writeTo would have taken it.
C26_Witness ==
    /\ Returned
    /\ ~writeToFails
    /\ FailureKind = "status"
    /\ resp = [status |-> 403, body |-> <<65, 66>>]
    /\ sink = <<>>

\* httpClient.Do returned a response.
GotResponse == resp # NoResponse

\* C27: the response body is closed exactly once by the time Generate3
\* returns whenever httpClient.Do returned a response (200, another status,
\* or a 200 whose copy to writeTo failed), it is not closed before the
\* status has been tested and the body read, and when httpClient.Do
\* returned an error there is no response and nothing is read or closed.
C27_BodyClosedOnce ==
    /\ (Returned /\ GotResponse) => bodyClosed = 1
    /\ ~Returned => bodyClosed = 0
    /\ doErr # Nil => (~GotResponse /\ bodyClosed = 0 /\ bodyRead = NoBody)

\* A 200 answer whose copy to writeTo failed at a write: the body is closed
\* all the same.
C27_Witness ==
    /\ Returned
    /\ resp = [status |-> 200, body |-> <<65, 66>>]
    /\ writeToFails
    /\ FailureKind = "copy"
    /\ bodyClosed = 1

\* The closing boundaries in a request body.
ClosingBoundaries(out) ==
    Cardinality({i \in 1..Len(out) : out[i].kind = "close"})

\* C25: every request body Generate3 or GenerateUltra hands to
\* httpClient.Do is a complete multipart document that ends with exactly
\* one closing boundary: the writer was closed once, not twice and not
\* never.
C25_OneClosingBoundary ==
    \A i \in 1..Len(sent) :
        /\ Len(sent[i].body) > 0
        /\ sent[i].body[Len(sent[i].body)].kind = "close"
        /\ ClosingBoundaries(sent[i].body) = 1

\* A body Generate3 has sent, with two closing boundaries.
C25_TwoClosingBoundaries ==
    /\ IsGenerate3Request(req)
    /\ Len(sent) = 1
    /\ ClosingBoundaries(sent[1].body) = 2

\* A body GenerateUltra has sent, with no closing boundary.
C25_NoClosingBoundary ==
    /\ ~IsGenerate3Request(req)
    /\ Len(sent) = 1
    /\ ClosingBoundaries(sent[1].body) = 0

\* The last message the logger wrote ("" when it wrote none).
LastLog == IF run.log = <<>> THEN "" ELSE run.log[Len(run.log)].msg

\* The complete, tagged image: the Artist tag, the prompt as
\* ImageDescription, then the bytes Generate3 delivered.
CompleteImage ==
    <<ExifTag("Artist", "Stable Diffusion"),
      ExifTag("ImageDescription", run.prompt.text)>>
    \o [i \in 1..Len(sink) |-> ImageByte(sink[i])]

\* A step of this run of the command (Gen3Command.Run, and the call of
\* Generate3 inside it), as against a step of another process.
RunStep == run' # run \/ pc' # pc

\* The command has ended, by returning or by halting.
Ended == run.pc \in {"returned", "exited"}

\* Nothing but this run has touched the output directory: no other
\* invocation has started on it and no post-generation command was started.
Alone == peer.pc = "stat" /\ run.posts = <<>>

\* C21: the command never leaves an incomplete or partial output file: once
\* it has ended, with nothing else writing to the directory, either it has
\* opened no output file and the files are as they were at the start, or
\* the output path holds the complete tagged image; and when generation,
\* the lookup of the Exif adder or the tagging fails, it has opened none.
C21_NoPartialOutputFile ==
    (Ended /\ Alone) =>
        /\ IF run.fd.state = "none"
           THEN fs \in StartFiles(config.OutputDirectory)
           ELSE /\ run.outputFile \in DOMAIN fs
                /\ fs[run.outputFile] = CompleteImage
        /\ LastLog \in {"failed to generate image", "failed to find Exif adder",
                        "failed to add new exif metadata"} =>
               run.fd.state = "none"

\* os.WriteFile has returned nil to Run: every byte was written through its
\* descriptor and Close returned nil.
Wrote == run.pc \in {"post", "postWait", "returned"}

\* What holds of the post-generation command in every state.
C22_Started ==
    /\ Len(run.posts) <= 1
    /\ \A i \in 1..Len(run.posts) :
         /\ Wrote
         /\ run.fd = [state |-> "closed", off |-> Len(run.imageWithNewExif),
                      err |-> Nil, created |-> run.fd.created, linked |-> TRUE]
         /\ config.PostGenerationCommand # ""
         /\ run.posts[i].name = config.PostGenerationCommand
         /\ run.posts[i].args = <<run.outputFile>>
         /\ run.exit # 1
         /\ \A k \in 1..Len(run.log) : run.log[k].level # "fatal"
         /\ run.posts[i].outcome = "running" <=> run.pc = "postWait"
         /\ (run.pc = "returned" /\ run.posts[i].outcome = "failed") =>
              (run.exit = 0 /\ LastLog = "post-generation command failed")
    /\ (run.pc = "returned" /\ config.PostGenerationCommand # "") =>
           Len(run.posts) = 1
    /\ config.PostGenerationCommand = "" => run.posts = <<>>

\* The post-generation command has failed and Run has returned.
PostFailed ==
    /\ run.pc = "returned"
    /\ Len(run.posts) = 1
    /\ run.posts[1].outcome = "failed"

InCore == pc \notin {"idle", "call", "returned"} /\ run.pc \in {"idle", "generate"}

\* toFormData has returned nil.
Serialized ==
    \/ pc \in {"close", "newRequest", "do", "inDo", "response", "return"}
    \/ pc = "done" /\ FailureKind \notin {"validation", "serialization"}

\* Generate3 and toFormData only read the image stream: while the call runs
\* and when it returns the stream is open and no Close has been called on
\* it, and once the request is serialized the stream has been read to its
\* end.
CoreOnlyReads ==
    InCore =>
        /\ image.closes = 0
        /\ ~req.Image.isNil => image.state = "open"
        /\ (Serialized /\ ~req.Image.isNil) => image.read = "eof"

\* C23 as first stated: the core only reads the image stream and never
\* closes it, and the command layer closes the file it opened after
\* Generate3 returns: once the command has ended, a file it opened has been
\* closed, once.
C23_Original ==
    /\ CoreOnlyReads
    /\ (Ended /\ image.state # "none") =>
           (image.state = "closed" /\ image.closes = 1)

\* C23: the core only reads the image stream and never closes it; closing
\* is the caller's: when Run returns, the file it opened has been closed
\* once, and when Run halts through Logger.Fatal instead the deferred Close
\* has not run: the process ends with the file never closed (the system
\* releases it).
C23_CoreOnlyReadsImage ==
    /\ CoreOnlyReads
    /\ (run.pc = "returned" /\ command.Image # "") =>
           (image.state = "closed" /\ image.closes = 1)
    /\ (run.pc = "exited" /\ run.exit = 1) =>
           (image.closes = 0 /\ image.state \in {"none", "released"})

\* Generate3 has returned nil to Run: the file Run opened has been read to
\* its end and is still open.
C23_Witness ==
    /\ run.pc = "generate"
    /\ pc = "done"
    /\ err = Nil
    /\ command.Image = "ref.png"
    /\ image = [state |-> "open", read |-> "eof", closes |-> 0]

\* C28: the command never overwrites an existing file: unless os.Stat has
\* failed for a reason other than the absence of the file, no step of the
\* command changes or removes a file that the command did not itself
\* create.
C28_NeverOverwrites ==
    [][(RunStep /\ (run.statErr = Nil \/ ErrorsIs(run.statErr, "fs.ErrNotExist"))) =>
          \A q \in DOMAIN fs :
              \/ q \in DOMAIN fs' /\ fs'[q] = fs[q]
              \/ q = run.outputFile /\ run.fd.created]_vars

\* The arguments and locals of call k, running or not.
CallView(k) == IF cur = k THEN Locals ELSE other

\* The body a call builds for the request g when it runs alone, with the
\* boundary b.
BodyAlone(g, b) ==
    IF IsGenerate3Request(g)
    THEN Writer_Close(Generate3Request_toFormData(g, NewWriter(0, b)).w).w.out
    ELSE GenerateUltraRequest_toFormData(g, NewWriter(0, b)).w.out

\* The requests of the call L among those given to the HTTP handle.
SentBy(L) == {i \in 1..Len(sent) : sent[i] = L.httpReq}

\* The call L has handed its request to the HTTP handle.
HandedOver(L) == L.pc = "inDo" \/ L.resp # NoResponse \/ L.doErr # Nil

\* C24: two calls on one Client, interleaved in any way, do not interfere:
\* the Client stays as NewClient left it; each call keeps the request it was
\* made with and builds its request from it alone, the body being the one it
\* builds when it runs alone; each call gives the HTTP handle its own
\* request, once, whatever the other call has given it and whichever answer
\* comes first; and the bytes in a call's sink are bytes of the response to
\* that call, in order from the first: none unless the status is 200, and
\* all of them when the call returns nil.
C24_ConcurrentCallsIndependent ==
    /\ client = NewClient("sk-test", options)
    /\ \A k \in {1, 2} :
         LET L == CallView(k)
         IN  /\ k = 1 => L.req = ConcurrentRequest(1)
             /\ k = 2 => L.req \in {ConcurrentRequest(2), ConcurrentUltraRequest}
             /\ L.httpReq # NoRequest =>
                  /\ L.httpReq.body = BodyAlone(L.req, L.formBuf.boundary)
                  /\ FieldValue(L.httpReq.body, "prompt") = L.req.Prompt
                  /\ L.httpReq.authorization = "Bearer " \o client.apiKey
             /\ HandedOver(L) <=> Cardinality(SentBy(L)) >= 1
             /\ Len(L.sink) <= Len(L.resp.body)
             /\ L.sink = SubSeq(L.resp.body, 1, Len(L.sink))
             /\ L.sink # <<>> => L.resp.status = 200
             /\ (L.pc = "done" /\ L.err = Nil) =>
                  (L.resp.status = 200 /\ L.sink = L.resp.body)
             /\ (L.pc = "done" /\ L.resp.status = 200 /\ ~L.writeToFails
                 /\ L.bodyRead.ends = "EOF") => L.err = Nil
    /\ Len(sent) = Cardinality({k \in {1, 2} : HandedOver(CallView(k))})

\* Both calls are inside httpClient.Do at once, each waiting for its answer.
C24_BothWaiting == CallView(1).pc = "inDo" /\ CallView(2).pc = "inDo"

\* Both calls have returned nil, the second having sent its request first,
\* and each sink holds the answer to its own call.
C24_Witness ==
    /\ IsGenerate3Request(CallView(2).req)
    /\ CallView(1).pc = "done" /\ CallView(2).pc = "done"
    /\ CallView(1).err = Nil /\ CallView(2).err = Nil
    /\ Len(sent) = 2
    /\ sent[1] = CallView(2).httpReq
    /\ sent[2] = CallView(1).httpReq
    /\ CallView(1).resp = [status |-> 200, body |-> <<65>>]
    /\ CallView(2).resp = [status |-> 200, body |-> <<66, 66>>]
    /\ CallView(1).sink = <<65>>
    /\ CallView(2).sink = <<66, 66>>

====
